---- MODULE Spec2Model ----
(***************************************************************************)
(* A state-machine model of active_ptw: the KT estimator, the Active PTW   *)
(* model, the bandit policies built on them, the UCB family, the MALG      *)
(* meta-policy and the Bernoulli bandit environment.                       *)
(*                                                                         *)
(* Representation of numbers.  The program keeps probabilities as doubles  *)
(* in the log domain (m_log_kt, m_log_weighted, m_log_buf, LogStopWeight). *)
(* A log-domain value L is represented here by the exact rational exp(L),  *)
(* a record [num, den] in lowest terms: the program's "+" on logs is RMul, *)
(* its "-" is RDiv, logAdd is RAdd, std::exp and std::log are the change   *)
(* of reading and 0.0 is the rational 1.  Rounding of doubles is not       *)
(* modelled.                                                               *)
(***************************************************************************)
EXTENDS Integers, Sequences, FiniteSets, TLC

(* ------------------------------ bounds --------------------------------- *)

\* largest PTW depth explored (ActivePTW::m_depth ranges over 1..MaxDepth)
MaxDepth == 2
\* largest number of arms of a PTW model (m_arms ranges over 2..MaxPTWArms)
MaxPTWArms == 3
\* largest number of ActivePTW::update calls explored
MaxUpdates == 3
\* largest number of KTEstimator::update calls on the stand-alone estimator
MaxBits == 6
\* largest number of arms of a bandit problem (2..MaxEnvArms)
MaxEnvArms == 2
\* largest number of StochasticBanditProblem::pull calls explored
MaxTrials == 3
\* largest number of arms a policy is constructed for (2..MaxArms)
MaxArms == 3
\* largest SlidingUCBStrategy::m_window explored (1..MaxWindow)
MaxWindow == 3
\* largest MalgUCB::m_n explored (1..MaxMalgDepth)
MaxMalgDepth == 2
\* largest number of arms MalgUCB is constructed for (2..MaxMalgArms)
MaxMalgArms == 2
\* largest number of update calls made on a policy with arms of any choice
MaxSteps == 2
\* largest number of trials of the loop a = getAction(); update(a, r)
MaxLoopTrials == 3

(* ------------------------- exact rationals ----------------------------- *)

Abs(x) == IF x < 0 THEN -x ELSE x

RECURSIVE GCD(_, _)
GCD(a, b) == IF b = 0 THEN a ELSE GCD(b, a % b)

\* the rational n/d (d > 0) in lowest terms
Rat(n, d) == LET g == GCD(Abs(n), d) IN [num |-> n \div g, den |-> d \div g]

ROne == [num |-> 1, den |-> 1]
RZero == [num |-> 0, den |-> 1]

\* x * y for rationals in lowest terms, cancelling before multiplying
RMul(x, y) ==
    LET g1 == GCD(Abs(x.num), y.den)
        g2 == GCD(Abs(y.num), x.den)
    IN  IF x.num = 0 \/ y.num = 0 THEN RZero
        ELSE [num |-> (x.num \div g1) * (y.num \div g2),
              den |-> (x.den \div g2) * (y.den \div g1)]

\* x / y for y > 0
RDiv(x, y) == RMul(x, [num |-> y.den, den |-> y.num])

RAdd(x, y) ==
    LET g == GCD(x.den, y.den)
    IN  Rat(x.num * (y.den \div g) + y.num * (x.den \div g), (x.den \div g) * y.den)

RSub(x, y) == RAdd(x, [num |-> -y.num, den |-> y.den])

\* x <= y, by the sign of x - y
RLeq(x, y) == RSub(x, y).num <= 0

RMax(x, y) == IF RLeq(x, y) THEN y ELSE x

RECURSIVE Pow2(_)
Pow2(n) == IF n = 0 THEN 1 ELSE 2 * Pow2(n - 1)

(* --------------------------- numeric helpers --------------------------- *)

\* logAdd(log_x, log_y) = log(x + y).  The branch that drops the correction
\* term is taken when the two logs differ by 100 or more, a ratio of e^100
\* between x and y; no pair of rationals with 32-bit numerators and
\* denominators is that far apart, so on every value the model can hold the
\* function takes its log1p branch, which is the exact sum.
logAdd(x, y) == RAdd(x, y)

(* ----------------------------- KTEstimator ----------------------------- *)

\* KTEstimator(): both counts 0, m_log_kt = 0.0 (the rational 1)
KTInit == [m_counts |-> <<0, 0>>, m_log_kt |-> ROne]

\* KTEstimator::prob(b) = (m_counts[b] + 1/2) / (m_counts[0] + m_counts[1] + 1);
\* m_counts[b] of the source is m_counts[b + 1] here (sequences start at 1)
KTprob(kt, b) ==
    Rat(2 * kt.m_counts[b + 1] + 1, 2 * (kt.m_counts[1] + kt.m_counts[2]) + 2)

\* update that counts the bit before it computes the bit's probability
KTupdate_CountFirst(kt, b) ==
    LET counted == [kt EXCEPT !.m_counts[b + 1] = @ + 1]
    IN  [counted EXCEPT !.m_log_kt = RMul(kt.m_log_kt, KTprob(counted, b))]

\* KTEstimator::update(b): m_log_kt += log(prob(b)), then m_counts[b]++
KTupdate(kt, b) ==
    [m_counts |-> [kt.m_counts EXCEPT ![b + 1] = @ + 1],
     m_log_kt |-> RMul(kt.m_log_kt, KTprob(kt, b))]

\* KTEstimator::posterior() = (1/2 + m_counts[1], 1/2 + m_counts[0])
KTposterior(kt) ==
    <<Rat(2 * kt.m_counts[2] + 1, 2), Rat(2 * kt.m_counts[1] + 1, 2)>>

(* ------------------------------ ActivePTW ------------------------------ *)

VARIABLES
    m_depth,   \* ActivePTW::m_depth
    m_arms,    \* ActivePTW::m_arms
    m_index,   \* ActivePTW::m_index, the number of updates absorbed
    m_nodes,   \* ActivePTW::m_nodes, one ActivePTWNode_t per level 0..m_depth
    obs,       \* history: the <<r, k>> of every update so far, oldest first
    kt,        \* a stand-alone KTEstimator
    bits,      \* history: the bits the stand-alone estimator absorbed
    m_thetas,            \* StochasticBanditProblem::m_thetas, arm -> mean
    m_num_trials,        \* StochasticBanditProblem::m_num_trials
    m_cumm_reward,       \* StochasticBanditProblem::m_cumm_reward (R)
    m_exp_cumm_reward,   \* StochasticBanditProblem::m_exp_cumm_reward (R*)
    m_change_schedule,   \* StochasticBanditProblem::m_change_schedule
    exited,              \* the process ended in die_with_error
    exp_pulled           \* history: the sum of the means of the arms pulled

Arms(K) == 0 .. (K - 1)

\* ActivePTWNode_t(arms): fresh KT estimators, m_log_weighted = m_log_buf = 0.0
ActivePTWNode_t(K) ==
    [m_model |-> [k \in Arms(K) |-> KTInit],
     m_log_weighted |-> ROne,
     m_log_buf |-> ROne]

RECURSIVE NodeMarginalUpTo(_, _)
NodeMarginalUpTo(node, k) ==
    IF k < 0 THEN ROne
    ELSE RMul(NodeMarginalUpTo(node, k - 1), node.m_model[k].m_log_kt)

\* ActivePTWNode_t::logMarginal(): the sum over the arms of their log marginals
NodeLogMarginal(node) ==
    NodeMarginalUpTo(node, Cardinality(DOMAIN node.m_model) - 1)

\* the constructor's prior: x = (arms - 1) / arms
LogStopWeight(K) == Rat(K - 1, K)
LogSplitWeight(K) == RSub(ROne, LogStopWeight(K))

\* bit c of x
Bit(x, c) == (x \div Pow2(c)) % 2

\* mscb comparing times t and t - 1 instead of t - 1 and t - 2
RECURSIVE mscbLoop_LateByOne(_, _, _)
mscbLoop_LateByOne(t, D, i) ==
    IF i >= D THEN i
    ELSE IF Bit(t, D - 1 - i) # Bit(t - 1, D - 1 - i) THEN i
    ELSE mscbLoop_LateByOne(t, D, i + 1)

\* mscb with its mask started at bit D instead of bit D - 1
RECURSIVE mscbLoop_FromBitD(_, _, _)
mscbLoop_FromBitD(t, D, i) ==
    IF i >= D THEN i
    ELSE IF Bit(t - 1, D - i) # Bit(t - 2, D - i) THEN i
    ELSE mscbLoop_FromBitD(t, D, i + 1)

RECURSIVE mscbLoop(_, _, _)
mscbLoop(t, D, i) ==
    IF i >= D THEN i
    ELSE IF Bit(t - 1, D - 1 - i) # Bit(t - 2, D - 1 - i) THEN i
    ELSE mscbLoop(t, D, i + 1)

\* ActivePTW::mscb(t), t the 1-based time
mscb(t, D) == IF t = 1 THEN 0 ELSE mscbLoop(t, D, 0)

\* the bottom-up pass with the split branch leaving out the buffered
\* probability of the finished sibling
RECURSIVE UpdatedNodes_NoBuf(_, _, _, _, _, _)
UpdatedNodes_NoBuf(ns, idx, D, K, r, k) ==
    LET model == [ns[idx].m_model EXCEPT ![k] = KTupdate(@, r)]
        n1 == [ns[idx] EXCEPT !.m_model = model]
    IN  IF idx = D
        THEN (idx :> [n1 EXCEPT !.m_log_weighted = NodeLogMarginal(n1)])
        ELSE LET below == UpdatedNodes_NoBuf(ns, idx + 1, D, K, r, k)
                 lhs == RMul(LogStopWeight(K), NodeLogMarginal(n1))
                 rhs == RMul(LogSplitWeight(K), below[idx + 1].m_log_weighted)
             IN  (idx :> [n1 EXCEPT !.m_log_weighted = logAdd(lhs, rhs)]) @@ below

\* the bottom-up pass of ActivePTW::update over nodes ns (already buffered
\* and reset): the levels idx..D after the arm-k estimator of each absorbed r
\* and its weighted probability was recomputed from the level below it
RECURSIVE UpdatedNodes(_, _, _, _, _, _)
UpdatedNodes(ns, idx, D, K, r, k) ==
    LET model == [ns[idx].m_model EXCEPT ![k] = KTupdate(@, r)]
        n1 == [ns[idx] EXCEPT !.m_model = model]
    IN  IF idx = D
        THEN (idx :> [n1 EXCEPT !.m_log_weighted = NodeLogMarginal(n1)])
        ELSE LET below == UpdatedNodes(ns, idx + 1, D, K, r, k)
                 lhs == RMul(LogStopWeight(K), NodeLogMarginal(n1))
                 rhs == RMul(RMul(LogSplitWeight(K), below[idx + 1].m_log_weighted),
                             n1.m_log_buf)
             IN  (idx :> [n1 EXCEPT !.m_log_weighted = logAdd(lhs, rhs)]) @@ below

\* update that resets below the change point without first saving the
\* child's weighted probability in the change point's parent
NodesAfterUpdate_NoSave(ns, index, D, K, r, k) ==
    LET i == mscb(index + 1, D)
        reset == [j \in 0 .. D |->
                    IF j >= i + 1 THEN ActivePTWNode_t(K) ELSE ns[j]]
    IN  UpdatedNodes(reset, 0, D, K, r, k)

\* the nodes after ActivePTW::update(r, k)
NodesAfterUpdate(ns, index, D, K, r, k) ==
    LET i == mscb(index + 1, D)
        buffered == [ns EXCEPT ![i].m_log_buf = ns[i + 1].m_log_weighted]
        reset == [j \in 0 .. D |->
                    IF j >= i + 1 THEN ActivePTWNode_t(K) ELSE buffered[j]]
    IN  UpdatedNodes(reset, 0, D, K, r, k)

\* ActivePTW::update(r, k); the assert on m_index is the guard
PTWUpdate(r, k) ==
    /\ m_index < Pow2(m_depth)
    /\ m_index < MaxUpdates
    /\ m_nodes' = NodesAfterUpdate(m_nodes, m_index, m_depth, m_arms, r, k)
    /\ m_index' = m_index + 1
    /\ obs' = Append(obs, <<r, k>>)
    /\ UNCHANGED <<m_depth, m_arms>>

\* ActivePTW::logMarginal()
PTWlogMarginal == m_nodes[0].m_log_weighted

\* levelPosterior with the stop weight left out of the stop posterior
RECURSIVE levelPosteriorUpTo_NoStopWeight(_, _, _)
levelPosteriorUpTo_NoStopWeight(ns, K, i) ==
    LET prev == IF i = 0 THEN [dest |-> <<>>, left |-> ROne]
                ELSE levelPosteriorUpTo_NoStopWeight(ns, K, i - 1)
        stop_post == RDiv(NodeLogMarginal(ns[i]), ns[i].m_log_weighted)
    IN  [dest |-> Append(prev.dest, RMul(prev.left, stop_post)),
         left |-> RMax(RMul(prev.left, RSub(ROne, stop_post)), RZero)]

\* ActivePTW::levelPosterior(): the entries dest[0..i] and the mass left
\* after level i, as [dest, left]
RECURSIVE levelPosteriorUpTo(_, _, _)
levelPosteriorUpTo(ns, K, i) ==
    LET prev == IF i = 0 THEN [dest |-> <<>>, left |-> ROne]
                ELSE levelPosteriorUpTo(ns, K, i - 1)
        stop_post == RDiv(RMul(LogStopWeight(K), NodeLogMarginal(ns[i])),
                          ns[i].m_log_weighted)
    IN  [dest |-> Append(prev.dest, RMul(prev.left, stop_post)),
         left |-> RMax(RMul(prev.left, RSub(ROne, stop_post)), RZero)]

levelPosterior(ns, D, K) == levelPosteriorUpTo(ns, K, D).dest

\* ActivePTW::ActivePTW(depth, arms)
PTWInit ==
    /\ m_depth \in 1 .. MaxDepth
    /\ m_arms \in 2 .. MaxPTWArms
    /\ m_index = 0
    /\ m_nodes = [j \in 0 .. m_depth |-> ActivePTWNode_t(m_arms)]
    /\ obs = <<>>

\* an ActivePTW that takes no part in the specification at hand
PTWIdle ==
    /\ m_depth = 1
    /\ m_arms = 2
    /\ m_index = 0
    /\ m_nodes = [j \in 0 .. 1 |-> ActivePTWNode_t(2)]
    /\ obs = <<>>

ptwVars == <<m_depth, m_arms, m_index, m_nodes, obs>>

(* ----------------------- stand-alone KTEstimator ----------------------- *)

ktVars == <<kt, bits>>

\* KTEstimator::KTEstimator()
KTStart ==
    /\ kt = KTInit
    /\ bits = <<>>

\* KTEstimator::update(b) on the stand-alone estimator
KTUpdateStep(b) ==
    /\ Len(bits) < MaxBits
    /\ kt' = KTupdate(kt, b)
    /\ bits' = Append(bits, b)

(* ----------------------- StochasticBanditProblem ----------------------- *)

envVars == <<m_thetas, m_num_trials, m_cumm_reward, m_exp_cumm_reward,
             m_change_schedule, exited, exp_pulled>>

\* values a draw of std::uniform_real_distribution<double>(0.0, 1.0) may
\* take: the range is [0, 1)
UniformSamples == {Rat(0, 1), Rat(1, 2)}

\* the theta vectors createBanditProblem builds for CptSchedule=Nasty
NastyTheta1(K) == [a \in Arms(K) |-> IF a = 0 THEN Rat(2, 10) ELSE Rat(1, 10)]
NastyTheta2(K) ==
    [a \in Arms(K) |-> IF a = 0 THEN Rat(2, 10)
                       ELSE IF a = 1 THEN Rat(8, 10) ELSE Rat(2, 10)]

\* the change schedules: NoChangeSchecule; a schedule holding a set m_cpts
\* (GeometricAbruptChangeSchedule after its constructor sampled the set,
\* VectorAbruptChangeSchedule); TwoPhaseChangeSchedule(max_trials, seg1, seg2)
Schedules(K) ==
    {[kind |-> "None"]}
    \cup {[kind |-> "Set", m_cpts |-> c] : c \in SUBSET (1 .. MaxTrials)}
    \cup {[kind |-> "TwoPhase", m_halfway |-> mt \div 2,
           m_thetas_seg1 |-> NastyTheta1(K), m_thetas_seg2 |-> NastyTheta2(K)] :
              mt \in 1 .. (MaxTrials + 1)}

\* ChangeSchedule::changepoint(t)
changepoint(cs, t) ==
    CASE cs.kind = "None" -> FALSE
      [] cs.kind = "Set" -> t \in cs.m_cpts
      [] cs.kind = "TwoPhase" -> t = cs.m_halfway \/ t = 1

\* ChangeSchedule::customArmInitialisation(t); <<>> is the empty vector
customArmInitialisation(cs, t) ==
    IF cs.kind = "TwoPhase"
    THEN IF t < cs.m_halfway THEN cs.m_thetas_seg1 ELSE cs.m_thetas_seg2
    ELSE <<>>

\* bestArm that takes the first arm for the best
bestArm_First(thetas) == 0

\* StochasticBanditProblem::bestArm(): std::max_element gives the first
\* of the largest elements
bestArm(thetas) ==
    CHOOSE a \in DOMAIN thetas :
        /\ \A b \in DOMAIN thetas : RLeq(thetas[b], thetas[a])
        /\ \A b \in DOMAIN thetas : b < a => thetas[b] # thetas[a]

\* outcomes of std::bernoulli_distribution(p): 1 unless p = 0, 0 unless p = 1
Flips(p) == {r \in 0 .. 1 : (r = 1 => p.num > 0) /\ (r = 0 => p.num < p.den)}

\* StochasticBanditProblem::StochasticBanditProblem(n_arms, seed, cs): reset()
\* draws every theta
EnvInit ==
    /\ \E K \in 2 .. MaxEnvArms :
          /\ m_thetas \in [Arms(K) -> UniformSamples]
          /\ m_change_schedule \in Schedules(K)
    /\ m_num_trials = 0
    /\ m_cumm_reward = 0
    /\ m_exp_cumm_reward = RZero
    /\ exited = FALSE
    /\ exp_pulled = RZero

\* a bandit problem that takes no part in the specification at hand
EnvIdle ==
    /\ m_thetas = [a \in Arms(2) |-> Rat(1, 2)]
    /\ m_change_schedule = [kind |-> "None"]
    /\ m_num_trials = 0
    /\ m_cumm_reward = 0
    /\ m_exp_cumm_reward = RZero
    /\ exited = FALSE
    /\ exp_pulled = RZero

\* StochasticBanditProblem::reset(): every theta drawn afresh
resetOutcomes(thetas) == [DOMAIN thetas -> UniformSamples]

\* the thetas pull() may leave behind at trial t: those of the schedule's
\* customArmInitialisation, or of reset() when that is empty, at a
\* changepoint; the old ones otherwise
ThetasAfterPull(cs, t, thetas) ==
    LET new_thetas == customArmInitialisation(cs, t)
    IN  IF changepoint(cs, t)
        THEN IF new_thetas = <<>> THEN resetOutcomes(thetas) ELSE {new_thetas}
        ELSE {thetas}

\* a pull that replaces the thetas at a changepoint before it flips the
\* coin and adds to the expected reward of the best arm
Pull_ChangeFirst(arm_index, flip, next) ==
    /\ ~exited
    /\ m_num_trials < MaxTrials
    /\ arm_index \in DOMAIN m_thetas
    /\ next \in ThetasAfterPull(m_change_schedule, m_num_trials + 1, m_thetas)
    /\ flip \in Flips(next[arm_index])
    /\ m_num_trials' = m_num_trials + 1
    /\ m_cumm_reward' = m_cumm_reward + flip
    /\ m_exp_cumm_reward' = RAdd(m_exp_cumm_reward, next[bestArm(next)])
    /\ exp_pulled' = RAdd(exp_pulled, next[arm_index])
    /\ m_thetas' = next
    /\ UNCHANGED <<m_change_schedule, exited>>

\* StochasticBanditProblem::pull(arm_index) with a valid arm; flip is the
\* coin's outcome and next the thetas in effect afterwards
Pull(arm_index, flip, next) ==
    /\ ~exited
    /\ m_num_trials < MaxTrials
    /\ arm_index \in DOMAIN m_thetas
    /\ flip \in Flips(m_thetas[arm_index])
    /\ m_num_trials' = m_num_trials + 1
    /\ m_cumm_reward' = m_cumm_reward + flip
    /\ m_exp_cumm_reward' = RAdd(m_exp_cumm_reward, m_thetas[bestArm(m_thetas)])
    /\ exp_pulled' = RAdd(exp_pulled, m_thetas[arm_index])
    /\ next \in ThetasAfterPull(m_change_schedule, m_num_trials + 1, m_thetas)
    /\ m_thetas' = next
    /\ UNCHANGED <<m_change_schedule, exited>>

\* StochasticBanditProblem::pull(arm_index) with arm_index >= m_thetas.size():
\* die_with_error
PullInvalid ==
    /\ ~exited
    /\ m_num_trials < MaxTrials
    /\ exited' = TRUE
    /\ UNCHANGED <<m_thetas, m_num_trials, m_cumm_reward, m_exp_cumm_reward,
                   m_change_schedule, exp_pulled>>

(* ---------------------------- bandit policies --------------------------- *)

VARIABLES
    alg,       \* the BanditStrategy object, a record of its members
    n_arms,    \* the number of arms the policy was constructed for
    pc,        \* the driver's position: "get" before getAction, "upd" before update
    action,    \* the value the last getAction returned
    trials,    \* the number of update calls made
    pulls,     \* history: the arms pulled by the loop a = getAction(); update(a, r)
    aborted    \* an assert of the policy failed

policyVars == <<alg, n_arms, pc, action, trials, pulls, aborted>>

\* the loop 'for i < m_arms: if score > best' started at 1
argmax_CountFromOne(score, K) ==
    1 + CHOOSE i \in Arms(K) :
            /\ \A j \in Arms(K) : score[j] <= score[i]
            /\ \A j \in Arms(K) : j < i => score[j] < score[i]

\* the loop 'best = -inf, best_idx = 0; for i < m_arms: if (score > best)'
\* of every getAction: the first arm of largest score
argmax(score, K) ==
    CHOOSE i \in Arms(K) :
        /\ \A j \in Arms(K) : score[j] <= score[i]
        /\ \A j \in Arms(K) : j < i => score[j] < score[i]

\* the orders a vector of K real-valued draws can come in, as ranks
\* (genBetaSample: any values of [0, 1])
SampleRanks(K) == [Arms(K) -> Arms(K)]

\* the orders the scores ucb(i) / klUCB(i) of the arms can come in, as
\* ranks.  A score is a function of the arm's sum and visit count (and of
\* the total count, the same for all arms): arms of equal statistics score
\* equal, and of two arms of equal visit count the one of larger sum scores
\* higher (strict) or not lower.
ScoreRanks(sum, visits, strict) ==
    {s \in [DOMAIN visits -> DOMAIN visits] :
        \A a, b \in DOMAIN visits :
            visits[a] = visits[b] =>
                /\ sum[a] = sum[b] => s[a] = s[b]
                /\ sum[a] < sum[b] => IF strict THEN s[a] < s[b]
                                               ELSE s[a] <= s[b]}

\* unvisitedArms that reports every arm
unvisitedArms_All(visits) == DOMAIN visits

\* UCBStrategy / KLUCBStrategy / SlidingUCBStrategy::unvisitedArms()
unvisitedArms(visits) == {arm \in DOMAIN visits : visits[arm] = 0}

\* UCBStrategy::UCBStrategy(seed, n_arms)
UCBStrategy(K) ==
    [kind |-> "UCB", m_arms |-> K,
     m_arm_cumm_reward |-> [a \in Arms(K) |-> 0],
     m_arm_visits |-> [a \in Arms(K) |-> 0],
     m_visits |-> 0]

\* UCBStrategy::reset()
UCBStrategy_reset(u) == UCBStrategy(u.m_arms)

\* UCBStrategy::getAction(): the values it can return
UCBStrategy_getAction(u) ==
    LET unvisited == unvisitedArms(u.m_arm_visits)
    IN  IF unvisited # {}
        THEN unvisited
        ELSE {argmax(s, u.m_arms) :
                s \in ScoreRanks(u.m_arm_cumm_reward, u.m_arm_visits, TRUE)}

\* UCBStrategy::update(arm, reward)
UCBStrategy_update(u, arm, reward) ==
    [u EXCEPT !.m_arm_cumm_reward[arm] = @ + reward,
              !.m_arm_visits[arm] = @ + 1,
              !.m_visits = @ + 1]

\* KLUCBStrategy::KLUCBStrategy(seed, n_arms)
KLUCBStrategy(K) ==
    [kind |-> "KLUCB", m_arms |-> K,
     m_arm_successes |-> [a \in Arms(K) |-> 0],
     m_arm_visits |-> [a \in Arms(K) |-> 0],
     m_visits |-> 0]

\* KLUCBStrategy::getAction(): the values it can return
KLUCBStrategy_getAction(u) ==
    LET unvisited == unvisitedArms(u.m_arm_visits)
    IN  IF unvisited # {}
        THEN unvisited
        ELSE {argmax(s, u.m_arms) :
                s \in ScoreRanks(u.m_arm_successes, u.m_arm_visits, FALSE)}

\* KLUCBStrategy::update(arm, reward)
KLUCBStrategy_update(u, arm, reward) ==
    [u EXCEPT !.m_arm_successes[arm] = @ + reward,
              !.m_arm_visits[arm] = @ + 1,
              !.m_visits = @ + 1]

\* SlidingUCBStrategy::SlidingUCBStrategy(seed, n_arms, window)
SlidingUCBStrategy(K, W) ==
    [kind |-> "SWUCB", m_arms |-> K, m_window |-> W,
     m_arm_cumm_reward |-> [a \in Arms(K) |-> 0],
     m_arm_visits |-> [a \in Arms(K) |-> 0],
     m_plays |-> <<>>, m_rewards |-> <<>>]

\* a getAction that scores the arms whether or not one is unvisited
SlidingUCBStrategy_getAction_ScoresAll(u) ==
    {argmax(s, u.m_arms) :
        s \in ScoreRanks(u.m_arm_cumm_reward, u.m_arm_visits, TRUE)}

\* SlidingUCBStrategy::getAction(): the values it can return
SlidingUCBStrategy_getAction(u) ==
    LET unvisited == unvisitedArms(u.m_arm_visits)
    IN  IF unvisited # {}
        THEN unvisited
        ELSE {argmax(s, u.m_arms) :
                s \in ScoreRanks(u.m_arm_cumm_reward, u.m_arm_visits, TRUE)}

\* an update that evicts as soon as the FIFO is as long as the window
SlidingUCBStrategy_update_EvictEarly(u, arm, reward) ==
    LET pushed == [u EXCEPT !.m_plays = Append(@, arm),
                            !.m_rewards = Append(@, reward),
                            !.m_arm_cumm_reward[arm] = @ + reward,
                            !.m_arm_visits[arm] = @ + 1]
        front == Head(pushed.m_plays)
    IN  IF Len(pushed.m_plays) >= pushed.m_window
        THEN [pushed EXCEPT !.m_arm_visits[front] = @ - 1,
                            !.m_arm_cumm_reward[front] = @ - Head(pushed.m_rewards),
                            !.m_plays = Tail(@),
                            !.m_rewards = Tail(@)]
        ELSE pushed

\* SlidingUCBStrategy::update(arm, reward): push, then evict the oldest
\* play when the FIFO is longer than the window
SlidingUCBStrategy_update(u, arm, reward) ==
    LET pushed == [u EXCEPT !.m_plays = Append(@, arm),
                            !.m_rewards = Append(@, reward),
                            !.m_arm_cumm_reward[arm] = @ + reward,
                            !.m_arm_visits[arm] = @ + 1]
        front == Head(pushed.m_plays)
    IN  IF Len(pushed.m_plays) > pushed.m_window
        THEN [pushed EXCEPT !.m_arm_visits[front] = @ - 1,
                            !.m_arm_cumm_reward[front] = @ - Head(pushed.m_rewards),
                            !.m_plays = Tail(@),
                            !.m_rewards = Tail(@)]
        ELSE pushed

\* UniformSamplingStrategy::UniformSamplingStrategy(seed, n_arms)
UniformSamplingStrategy(K) == [kind |-> "Uniform", m_arms |-> K]

\* UniformSamplingStrategy::getAction(): randidx(0, m_arms-1)
UniformSamplingStrategy_getAction(u) == 0 .. (u.m_arms - 1)

\* ConstantStrategy::ConstantStrategy(action)
ConstantStrategy(a) == [kind |-> "Constant", m_action |-> a]

\* ConstantStrategy::getAction()
ConstantStrategy_getAction(u) == {u.m_action}

\* MasterUCB: no members are used
MasterUCB == [kind |-> "MASTER"]

\* MasterUCB::getAction(): the stub returns 0
MasterUCB_getAction(u) == {0}

\* ThompsonSamplingStrategy::ThompsonSamplingStrategy(seed, n_arms)
ThompsonSamplingStrategy(K) ==
    [kind |-> "TS", m_model |-> [a \in Arms(K) |-> KTInit]]

\* ThompsonSamplingStrategy::getAction(): argmax of one Beta draw per arm
ThompsonSamplingStrategy_getAction(u) ==
    LET K == Cardinality(DOMAIN u.m_model)
    IN  {argmax(r, K) : r \in SampleRanks(K)}

\* ThompsonSamplingStrategy::update(arm, reward)
ThompsonSamplingStrategy_update(u, arm, reward) ==
    [u EXCEPT !.m_model[arm] = KTupdate(@, reward)]

\* ActivePTWBanditStrategy::ActivePTWBanditStrategy(seed, n_arms); its
\* m_model is the ActivePTW of the variables m_depth .. m_nodes
ActivePTWBanditStrategy(K) == [kind |-> "ActivePTW", m_arms |-> K]

\* ActivePTWBanditStrategy::levelPosteriorSample(): discrete_distribution
\* over levelPosterior() draws a level of positive weight
levelPosteriorSample(ns, D, K) ==
    {level \in 0 .. D : levelPosterior(ns, D, K)[level + 1].num > 0}

\* ActivePTWBanditStrategy::getAction(): a level, then the argmax of one
\* Beta draw per arm from that level's posteriors
ActivePTWBanditStrategy_getAction(u, ns, D) ==
    UNION {{argmax(r, u.m_arms) : r \in SampleRanks(u.m_arms)} :
              level \in levelPosteriorSample(ns, D, u.m_arms)}

\* ParanoidPTWBanditStrategy::ParanoidPTWBanditStrategy(seed, n_arms); its
\* m_aptw.m_model is the ActivePTW of the variables m_depth .. m_nodes
ParanoidPTWBanditStrategy(K) ==
    [kind |-> "ParanoidPTW", m_arms |-> K, m_trials |-> 0]

\* the least n with std::log(n) >= j, for j = 0 .. 4
ExpCeil == <<1, 3, 8, 21, 55>>

\* the integer part of std::log(n), n in 1 .. 54
floorLog(n) == CHOOSE j \in 0 .. 3 : ExpCeil[j + 1] <= n /\ n < ExpCeil[j + 2]

\* 'clip = std::log(m_trials+1)+1.0; while (k > clip) k--'
clipped(k, m_trials) ==
    LET clip == floorLog(m_trials + 1) + 1
    IN  IF k > clip THEN clip ELSE k

\* the outcomes of 'uniform01_dist(m_generator) < exploreProb(k)':
\* exploreProb(0) = 1, and 0 < exploreProb(k) < 1 for k >= 1
exploreOutcomes(k) == IF k = 0 THEN {TRUE} ELSE BOOLEAN

\* ParanoidPTWBanditStrategy::getAction() once the level is drawn: the
\* values it can return
ParanoidPTWBanditStrategy_getActionAt(u, D, level) ==
    LET k == clipped(D - level, u.m_trials)
    IN  UNION {IF explore
               THEN 0 .. (u.m_arms - 1)
               ELSE {argmax(r, u.m_arms) : r \in SampleRanks(u.m_arms)} :
                  explore \in exploreOutcomes(k)}

\* ParanoidPTWBanditStrategy::getAction(): the values it can return
ParanoidPTWBanditStrategy_getAction(u, ns, D) ==
    UNION {ParanoidPTWBanditStrategy_getActionAt(u, D, level) :
              level \in levelPosteriorSample(ns, D, u.m_arms)}

\* ParanoidPTWBanditStrategy::update(arm, reward), the part on its own members
ParanoidPTWBanditStrategy_update(u) == [u EXCEPT !.m_trials = @ + 1]

(* -------------------------------- MalgUCB ------------------------------- *)

\* MalgUCB::MalgUCB(seed, n_arms, depth): m_instances maps the levels that
\* hold an instance_t to it; no level does at first
MalgUCB(K, depth) ==
    [kind |-> "MALG", m_arms |-> K, m_n |-> depth, m_tau |-> 1,
     m_instances |-> <<>>]

\* MalgUCB::instance_t::instance_t(seed, n_arms, start, end)
instance_t(K, start, end) == [alg |-> UCBStrategy(K), s |-> start, e |-> end]

\* MalgUCB::instance_t::length()
length(inst) == inst.e - inst.s + 1

\* a restart loop that draws for every level at every step
restartDue_EveryStep(tau, m) == TRUE

\* 'if (((m_tau-1) % (1 << m)) == 0)'
restartDue(tau, m) == (tau - 1) % Pow2(m) = 0

\* a restart draw that can fail at every level
restartOutcomes_NeverSure(m, n) == BOOLEAN

\* the outcomes of 'uniform01_dist(m_generator) < rho(2^n) / rho(2^m)' with
\* the draw in [0, 1): rho(t) = sqrt(K/t) + K/t is positive and strictly
\* decreasing, so the threshold is 1 when m = n and inside (0, 1) when m < n
restartOutcomes(m, n) == IF Pow2(n) <= Pow2(m) THEN {TRUE} ELSE BOOLEAN

\* the outcomes of the restart loop of getAction at step tau: which levels
\* are (re)installed
restarts(tau, n) ==
    {d \in [0 .. n -> BOOLEAN] :
        \A m \in 0 .. n :
            IF restartDue(tau, m) THEN d[m] \in restartOutcomes(m, n)
                                  ELSE d[m] = FALSE}

\* a restart that moves the window of a present instance without
\* alg.reset()
installed_NoReset(g, d) ==
    [m \in DOMAIN g.m_instances \cup {l \in 0 .. g.m_n : d[l]} |->
        IF d[m]
        THEN IF m \in DOMAIN g.m_instances
             THEN [alg |-> g.m_instances[m].alg,
                   s |-> g.m_tau, e |-> g.m_tau + Pow2(m) - 1]
             ELSE instance_t(g.m_arms, g.m_tau, g.m_tau + Pow2(m) - 1)
        ELSE g.m_instances[m]]

\* a restart that gives level m the window length 2^(m_n - m), the
\* shorter the higher the level
installed_ReversedLevels(g, d) ==
    [m \in DOMAIN g.m_instances \cup {l \in 0 .. g.m_n : d[l]} |->
        IF d[m]
        THEN IF m \in DOMAIN g.m_instances
             THEN [alg |-> UCBStrategy_reset(g.m_instances[m].alg),
                   s |-> g.m_tau, e |-> g.m_tau + Pow2(g.m_n - m) - 1]
             ELSE instance_t(g.m_arms, g.m_tau, g.m_tau + Pow2(g.m_n - m) - 1)
        ELSE g.m_instances[m]]

\* m_instances after the restart loop: level m of d gets the window
\* [tau, tau + 2^m - 1] and a UCBStrategy without statistics (created, or
\* reset)
installed(g, d) ==
    [m \in DOMAIN g.m_instances \cup {l \in 0 .. g.m_n : d[l]} |->
        IF d[m]
        THEN IF m \in DOMAIN g.m_instances
             THEN [alg |-> UCBStrategy_reset(g.m_instances[m].alg),
                   s |-> g.m_tau, e |-> g.m_tau + Pow2(m) - 1]
             ELSE instance_t(g.m_arms, g.m_tau, g.m_tau + Pow2(m) - 1)
        ELSE g.m_instances[m]]

\* the instances activeInstance() considers: present, with m_tau in [s, e]
candidates(g) ==
    {i \in DOMAIN g.m_instances :
        g.m_tau >= g.m_instances[i].s /\ g.m_tau <= g.m_instances[i].e}

\* an activeInstance() that prefers the longest window
activeInstance_Longest(g) ==
    CHOOSE i \in candidates(g) :
        \A j \in candidates(g) :
            length(g.m_instances[i]) >= length(g.m_instances[j])

\* MalgUCB::activeInstance(): the first candidate of the smallest length;
\* its assert fails when there is no candidate
activeInstance(g) ==
    CHOOSE i \in candidates(g) :
        \A j \in candidates(g) :
            /\ length(g.m_instances[i]) <= length(g.m_instances[j])
            /\ j < i => length(g.m_instances[i]) < length(g.m_instances[j])

\* an update that gives the reward to every instance whose window holds tau
MalgUCB_update_AllCandidates(g, arm, reward) ==
    [g EXCEPT !.m_instances =
                  [m \in DOMAIN @ |->
                      IF m \in candidates(g)
                      THEN [@[m] EXCEPT !.alg = UCBStrategy_update(@, arm, reward)]
                      ELSE @[m]],
              !.m_tau = @ + 1]

\* MalgUCB::update(arm, reward) when activeInstance() returns
MalgUCB_update(g, arm, reward) ==
    [g EXCEPT !.m_instances[activeInstance(g)].alg =
                  UCBStrategy_update(@, arm, reward),
              !.m_tau = @ + 1]

(* ---------------------- the getAction / update loop --------------------- *)

\* getAction returns one of rets
Returns(rets) ==
    /\ pc = "get"
    /\ ~aborted
    /\ action' \in rets
    /\ pc' = "upd"
    /\ UNCHANGED <<n_arms, trials, pulls, aborted>>

\* update(arm, reward) is called and returns; the history pulls is kept by
\* the loop that calls it
Updates(arm) ==
    /\ pc = "upd"
    /\ ~aborted
    /\ trials' = trials + 1
    /\ pc' = "get"
    /\ UNCHANGED <<n_arms, action, aborted>>

UCBGetAction ==
    /\ alg.kind = "UCB"
    /\ Returns(UCBStrategy_getAction(alg))
    /\ UNCHANGED alg /\ UNCHANGED ptwVars

UCBUpdate(arm, reward) ==
    /\ alg.kind = "UCB"
    /\ Updates(arm)
    /\ alg' = UCBStrategy_update(alg, arm, reward)
    /\ UNCHANGED ptwVars

KLUCBGetAction ==
    /\ alg.kind = "KLUCB"
    /\ Returns(KLUCBStrategy_getAction(alg))
    /\ UNCHANGED alg /\ UNCHANGED ptwVars

KLUCBUpdate(arm, reward) ==
    /\ alg.kind = "KLUCB"
    /\ Updates(arm)
    /\ alg' = KLUCBStrategy_update(alg, arm, reward)
    /\ UNCHANGED ptwVars

SlidingUCBGetAction ==
    /\ alg.kind = "SWUCB"
    /\ Returns(SlidingUCBStrategy_getAction(alg))
    /\ UNCHANGED alg /\ UNCHANGED ptwVars

SlidingUCBUpdate(arm, reward) ==
    /\ alg.kind = "SWUCB"
    /\ Updates(arm)
    /\ alg' = SlidingUCBStrategy_update(alg, arm, reward)
    /\ UNCHANGED ptwVars

UniformGetAction ==
    /\ alg.kind = "Uniform"
    /\ Returns(UniformSamplingStrategy_getAction(alg))
    /\ UNCHANGED alg /\ UNCHANGED ptwVars

\* UniformSamplingStrategy::update(arm, reward): empty
UniformUpdate(arm, reward) ==
    /\ alg.kind = "Uniform"
    /\ Updates(arm)
    /\ UNCHANGED alg /\ UNCHANGED ptwVars

ConstantGetAction ==
    /\ alg.kind = "Constant"
    /\ Returns(ConstantStrategy_getAction(alg))
    /\ UNCHANGED alg /\ UNCHANGED ptwVars

\* ConstantStrategy::update(arm, reward): empty
ConstantUpdate(arm, reward) ==
    /\ alg.kind = "Constant"
    /\ Updates(arm)
    /\ UNCHANGED alg /\ UNCHANGED ptwVars

MasterGetAction ==
    /\ alg.kind = "MASTER"
    /\ Returns(MasterUCB_getAction(alg))
    /\ UNCHANGED alg /\ UNCHANGED ptwVars

\* MasterUCB::update(arm, reward): empty
MasterUpdate(arm, reward) ==
    /\ alg.kind = "MASTER"
    /\ Updates(arm)
    /\ UNCHANGED alg /\ UNCHANGED ptwVars

TSGetAction ==
    /\ alg.kind = "TS"
    /\ Returns(ThompsonSamplingStrategy_getAction(alg))
    /\ UNCHANGED alg /\ UNCHANGED ptwVars

TSUpdate(arm, reward) ==
    /\ alg.kind = "TS"
    /\ Updates(arm)
    /\ alg' = ThompsonSamplingStrategy_update(alg, arm, reward)
    /\ UNCHANGED ptwVars

ActivePTWGetAction ==
    /\ alg.kind = "ActivePTW"
    /\ Returns(ActivePTWBanditStrategy_getAction(alg, m_nodes, m_depth))
    /\ UNCHANGED alg /\ UNCHANGED ptwVars

\* ActivePTWBanditStrategy::update(arm, reward): m_model.update(reward, arm)
ActivePTWUpdate(arm, reward) ==
    /\ alg.kind = "ActivePTW"
    /\ Updates(arm)
    /\ PTWUpdate(reward, arm)
    /\ UNCHANGED alg

ParanoidPTWGetAction ==
    /\ alg.kind = "ParanoidPTW"
    /\ Returns(ParanoidPTWBanditStrategy_getAction(alg, m_nodes, m_depth))
    /\ UNCHANGED alg /\ UNCHANGED ptwVars

\* ParanoidPTWBanditStrategy::update(arm, reward): m_aptw.update(arm,
\* reward), then m_trials++
ParanoidPTWUpdate(arm, reward) ==
    /\ alg.kind = "ParanoidPTW"
    /\ Updates(arm)
    /\ PTWUpdate(reward, arm)
    /\ alg' = ParanoidPTWBanditStrategy_update(alg)

\* MalgUCB::getAction(): the restart loop, then the action of the active
\* instance, or the failed assert of activeInstance()
MalgGetAction ==
    /\ alg.kind = "MALG"
    /\ pc = "get"
    /\ ~aborted
    /\ \E d \in restarts(alg.m_tau, alg.m_n) :
          LET g == [alg EXCEPT !.m_instances = installed(alg, d)]
          IN  /\ alg' = g
              /\ IF candidates(g) = {}
                 THEN aborted' = TRUE /\ UNCHANGED <<action, pc>>
                 ELSE /\ action' \in UCBStrategy_getAction(
                                         g.m_instances[activeInstance(g)].alg)
                      /\ pc' = "upd"
                      /\ UNCHANGED aborted
    /\ UNCHANGED <<n_arms, trials, pulls>>
    /\ UNCHANGED ptwVars

\* MalgUCB::update(arm, reward), or the failed assert of activeInstance()
MalgUpdate(arm, reward) ==
    /\ alg.kind = "MALG"
    /\ pc = "upd"
    /\ ~aborted
    /\ IF candidates(alg) = {}
       THEN aborted' = TRUE /\ UNCHANGED <<alg, trials, pc>>
       ELSE /\ alg' = MalgUCB_update(alg, arm, reward)
            /\ trials' = trials + 1
            /\ pc' = "get"
            /\ UNCHANGED aborted
    /\ UNCHANGED <<n_arms, action>>
    /\ UNCHANGED ptwVars

\* the policies createBanditAlgorithm can build for K arms, and MasterUCB;
\* the window of SWUCB ranges over 1 .. MaxWindow; MALG is built for up to
\* MaxMalgArms arms with a depth of 1 .. MaxMalgDepth (the program uses 20)
Policies(K) ==
    {UCBStrategy(K), KLUCBStrategy(K), UniformSamplingStrategy(K),
     ConstantStrategy(0), MasterUCB, ThompsonSamplingStrategy(K),
     ActivePTWBanditStrategy(K), ParanoidPTWBanditStrategy(K)}
    \cup {SlidingUCBStrategy(K, W) : W \in 1 .. MaxWindow}
    \cup {MalgUCB(K, D) : D \in IF K <= MaxMalgArms THEN 1 .. MaxMalgDepth ELSE {}}

\* a policy of one of the kinds, newly constructed; a policy over a PTW
\* model has it at depth MaxDepth (the program uses 30)
PolicyInit(kinds) ==
    /\ n_arms \in 2 .. MaxArms
    /\ alg \in {p \in Policies(n_arms) : p.kind \in kinds}
    /\ pc = "get"
    /\ action = 0
    /\ trials = 0
    /\ pulls = <<>>
    /\ aborted = FALSE
    /\ IF alg.kind \in {"ActivePTW", "ParanoidPTW"}
       THEN /\ m_depth = MaxDepth
            /\ m_arms = n_arms
            /\ m_index = 0
            /\ m_nodes = [j \in 0 .. m_depth |-> ActivePTWNode_t(m_arms)]
            /\ obs = <<>>
       ELSE PTWIdle

\* no policy takes part in the specification at hand
PolicyIdle ==
    /\ n_arms = 2
    /\ alg = MasterUCB
    /\ pc = "get"
    /\ action = 0
    /\ trials = 0
    /\ pulls = <<>>
    /\ aborted = FALSE

(* ------------------- two runs of a policy from one seed ----------------- *)

VARIABLES
    twin,    \* two policy objects built with the same arguments, <<first, second>>
    rng,     \* the values std::default_random_engine gave so far: <<stream, position>> -> value
    turn,    \* the driver's position: "get1", "get2" (getAction of each), "upd"
    rounds   \* the number of updates the driver made

twinVars == <<twin, rng, turn, rounds>>

\* the pair of policies has at most MaxTwinArms arms and is given at most
\* MaxTwinSteps updates
MaxTwinArms == 2
MaxTwinSteps == 2

\* params_t::AgentSeed, the default seed of the policies
AgentSeed == 33

\* the seed of the generators of a policy built with seed: id 0 is its
\* m_generator, id 1 the m_generator of ParanoidPTW's m_aptw (built with
\* the same seed), id 2 + m that of the UCBStrategy of MalgUCB's level m
\* (built with m_seed + m)
engineSeed(seed, id) == IF id >= 2 THEN seed + (id - 2) ELSE seed

\* a generator whose stream differs from object to object
streamOf_PerObject(seed, id, copy) == engineSeed(seed, id) + 100 * copy

\* the stream of values a generator yields: std::default_random_engine is
\* seeded in the constructor's initialiser list and nowhere else, so the
\* stream is that of its seed whichever object holds it
streamOf(seed, id, copy) == engineSeed(seed, id)

\* the v-th element of a finite set in a fixed enumeration
RECURSIVE Nth(_, _)
Nth(S, v) ==
    LET first == CHOOSE x \in S : TRUE
    IN  IF v = 0 THEN first ELSE Nth(S \ {first}, v - 1)

\* the outcomes a distribution over S can give when it reads the generator
\* at key: what the table t holds for key, any element when the stream has
\* not been read there before
drawValues(t, key, S) ==
    IF key \in DOMAIN t THEN {t[key] % Cardinality(S)}
                        ELSE 0 .. (Cardinality(S) - 1)

\* the table once key has been read as v
recorded(t, key, v) == IF key \in DOMAIN t THEN t ELSE t @@ (key :> v)

\* a policy object with its generators' positions (pos[id] values read),
\* its PTW model where it has one, and the value of its last getAction
twinObject(p, K) ==
    [alg |-> p,
     n_arms |-> K,
     m_index |-> 0,
     m_nodes |-> IF p.kind \in {"ActivePTW", "ParanoidPTW"}
                 THEN [j \in 0 .. MaxDepth |-> ActivePTWNode_t(K)]
                 ELSE <<>>,
     pos |-> [id \in 0 .. (2 + MaxMalgDepth) |-> 0],
     ret |-> 0]

\* whether getAction reads the policy's own generator: the UCB family does
\* when an arm is unvisited, Constant and MasterUCB never do
usesGenerator(u) ==
    CASE u.kind \in {"UCB", "KLUCB", "SWUCB"} -> unvisitedArms(u.m_arm_visits) # {}
      [] u.kind \in {"Constant", "MASTER"} -> FALSE
      [] OTHER -> TRUE

\* the values getAction of a policy with one generator can return
policyActions(o) ==
    CASE o.alg.kind = "UCB" -> UCBStrategy_getAction(o.alg)
      [] o.alg.kind = "KLUCB" -> KLUCBStrategy_getAction(o.alg)
      [] o.alg.kind = "SWUCB" -> SlidingUCBStrategy_getAction(o.alg)
      [] o.alg.kind = "Uniform" -> UniformSamplingStrategy_getAction(o.alg)
      [] o.alg.kind = "Constant" -> ConstantStrategy_getAction(o.alg)
      [] o.alg.kind = "MASTER" -> MasterUCB_getAction(o.alg)
      [] o.alg.kind = "TS" -> ThompsonSamplingStrategy_getAction(o.alg)
      [] o.alg.kind = "ActivePTW" ->
            ActivePTWBanditStrategy_getAction(o.alg, o.m_nodes, MaxDepth)

\* getAction of a policy with one generator: the <<object, table>> it can
\* leave.  Without a read of the generator the value is a function of the
\* object's state alone.
plainGetAction(o, t, copy) ==
    LET S == policyActions(o)
        key == <<streamOf(AgentSeed, 0, copy), o.pos[0]>>
    IN  IF usesGenerator(o.alg)
        THEN {<<[o EXCEPT !.ret = Nth(S, v), !.pos[0] = @ + 1],
                recorded(t, key, v)>> : v \in drawValues(t, key, S)}
        ELSE {<<[o EXCEPT !.ret = Nth(S, 0)], t>>}

\* ParanoidPTWBanditStrategy::getAction(): the level is drawn from the
\* generator of m_aptw, the rest from its own
paranoidGetAction(o, t, copy) ==
    LET L == levelPosteriorSample(o.m_nodes, MaxDepth, o.alg.m_arms)
        key1 == <<streamOf(AgentSeed, 1, copy), o.pos[1]>>
        key0 == <<streamOf(AgentSeed, 0, copy), o.pos[0]>>
    IN  UNION {LET level == Nth(L, v1)
                   t1 == recorded(t, key1, v1)
                   S == ParanoidPTWBanditStrategy_getActionAt(o.alg, MaxDepth, level)
               IN  {<<[o EXCEPT !.ret = Nth(S, v0), !.pos[1] = @ + 1,
                                !.pos[0] = @ + 1],
                      recorded(t1, key0, v0)>> : v0 \in drawValues(t1, key0, S)} :
                  v1 \in drawValues(t, key1, L)}

\* MalgUCB::getAction(): the restarts are drawn from its own generator,
\* the action from the generator of the active instance
malgGetAction(o, t, copy) ==
    LET R == restarts(o.alg.m_tau, o.alg.m_n)
        key0 == <<streamOf(AgentSeed, 0, copy), o.pos[0]>>
    IN  UNION {LET g == [o.alg EXCEPT !.m_instances = installed(o.alg, Nth(R, v0))]
                   t0 == recorded(t, key0, v0)
                   a == activeInstance(g)
                   u == g.m_instances[a].alg
                   S == UCBStrategy_getAction(u)
                   keya == <<streamOf(AgentSeed, 2 + a, copy), o.pos[2 + a]>>
               IN  IF usesGenerator(u)
                   THEN {<<[o EXCEPT !.alg = g, !.ret = Nth(S, v), !.pos[0] = @ + 1,
                                     !.pos[2 + a] = @ + 1],
                           recorded(t0, keya, v)>> : v \in drawValues(t0, keya, S)}
                   ELSE {<<[o EXCEPT !.alg = g, !.ret = Nth(S, 0), !.pos[0] = @ + 1],
                           t0>>} :
                  v0 \in drawValues(t, key0, R)}

\* BanditStrategy::getAction() of the object o
objectGetAction(o, t, copy) ==
    CASE o.alg.kind = "ParanoidPTW" -> paranoidGetAction(o, t, copy)
      [] o.alg.kind = "MALG" -> malgGetAction(o, t, copy)
      [] OTHER -> plainGetAction(o, t, copy)

\* BanditStrategy::update(arm, reward) of the object o
objectUpdate(o, arm, reward) ==
    CASE o.alg.kind = "UCB" -> [o EXCEPT !.alg = UCBStrategy_update(@, arm, reward)]
      [] o.alg.kind = "KLUCB" -> [o EXCEPT !.alg = KLUCBStrategy_update(@, arm, reward)]
      [] o.alg.kind = "SWUCB" ->
            [o EXCEPT !.alg = SlidingUCBStrategy_update(@, arm, reward)]
      [] o.alg.kind = "TS" ->
            [o EXCEPT !.alg = ThompsonSamplingStrategy_update(@, arm, reward)]
      [] o.alg.kind = "MALG" -> [o EXCEPT !.alg = MalgUCB_update(@, arm, reward)]
      [] o.alg.kind = "ActivePTW" ->
            [o EXCEPT !.m_nodes = NodesAfterUpdate(@, o.m_index, MaxDepth,
                                                   o.alg.m_arms, reward, arm),
                      !.m_index = @ + 1]
      [] o.alg.kind = "ParanoidPTW" ->
            [o EXCEPT !.m_nodes = NodesAfterUpdate(@, o.m_index, MaxDepth,
                                                   o.alg.m_arms, reward, arm),
                      !.m_index = @ + 1,
                      !.alg = ParanoidPTWBanditStrategy_update(@)]
      [] OTHER -> o

\* two policies constructed with the same seed, K, depth and window
TwinInit ==
    /\ \E K \in 2 .. MaxTwinArms : \E p \in Policies(K) :
          twin = <<twinObject(p, K), twinObject(p, K)>>
    /\ rng = <<>>
    /\ turn = "get1"
    /\ rounds = 0

\* no pair of policies takes part in the specification at hand
TwinIdle ==
    /\ twin = <<twinObject(MasterUCB, 2), twinObject(MasterUCB, 2)>>
    /\ rng = <<>>
    /\ turn = "get1"
    /\ rounds = 0

\* getAction() of the first object
TwinGetFirst ==
    /\ turn = "get1"
    /\ \E out \in objectGetAction(twin[1], rng, 1) :
          /\ twin' = [twin EXCEPT ![1] = out[1]]
          /\ rng' = out[2]
    /\ turn' = "get2"
    /\ UNCHANGED rounds

\* getAction() of the second object
TwinGetSecond ==
    /\ turn = "get2"
    /\ \E out \in objectGetAction(twin[2], rng, 2) :
          /\ twin' = [twin EXCEPT ![2] = out[1]]
          /\ rng' = out[2]
    /\ turn' = "upd"
    /\ UNCHANGED rounds

\* update(arm, reward) of both objects with the same arm and reward
TwinUpdate(arm, reward) ==
    /\ turn = "upd"
    /\ twin' = <<objectUpdate(twin[1], arm, reward),
                 objectUpdate(twin[2], arm, reward)>>
    /\ turn' = "get1"
    /\ rounds' = rounds + 1
    /\ UNCHANGED rng

(* ------------------- the sliding window under any updates --------------- *)

VARIABLE fed    \* the <<arm, reward>> pairs given to update so far, oldest first

\* a SlidingUCBStrategy of up to MaxSWArms arms and a window of up to
\* MaxSWWindow is given up to MaxFed updates
MaxSWArms == 2
MaxSWWindow == 4
MaxFed == 5

\* a SlidingUCBStrategy as constructed, nothing given to it yet
WindowInit ==
    /\ n_arms \in 2 .. MaxSWArms
    /\ \E W \in 1 .. MaxSWWindow : alg = SlidingUCBStrategy(n_arms, W)
    /\ pc = "upd"
    /\ action = 0
    /\ trials = 0
    /\ pulls = <<>>
    /\ aborted = FALSE
    /\ fed = <<>>

\* no update is recorded in the specification at hand
WindowIdle == fed = <<>>

\* SlidingUCBStrategy::update(arm, reward) with any arm and reward
WindowUpdate(arm, reward) ==
    /\ alg.kind = "SWUCB"
    /\ alg' = SlidingUCBStrategy_update(alg, arm, reward)
    /\ trials' = trials + 1
    /\ fed' = Append(fed, <<arm, reward>>)
    /\ UNCHANGED <<n_arms, pc, action, pulls, aborted>>

(* ------------- ActivePTW over numbers of more than 32 bits -------------- *)

\* A natural number as the sequence of its base-1000 digits, the least
\* significant first and the most significant not 0; <<>> is 0.

RECURSIVE BigOf(_)
BigOf(n) == IF n = 0 THEN <<>> ELSE <<n % 1000>> \o BigOf(n \div 1000)

BigDigit(a, i) == IF i <= Len(a) THEN a[i] ELSE 0

\* the digits s without the zeros at its most significant end
BigTrim(s) ==
    LET nonzero == {i \in 1 .. Len(s) : s[i] # 0}
    IN  IF nonzero = {} THEN <<>>
        ELSE SubSeq(s, 1, CHOOSE i \in nonzero : \A j \in nonzero : j <= i)

\* the function f on 1..n as a sequence whose entries are evaluated once
Listed(f, n) == SubSeq(f, 1, n)

\* e, with the value x it depends on computed before it: TLC computes a
\* definition where it is first needed, which for a chain of definitions
\* nests their evaluations one inside the other
After(x, e) == IF x = x THEN e ELSE e

\* the entry i of the sequence v, 0 outside it
BigAt(v, i) == IF 1 <= i /\ i <= Len(v) THEN v[i] ELSE 0

\* the number whose i-th digit position holds cols[i], each below 10^9.
\* The three base-1000 digits of every entry are moved to their positions
\* (entries below 3000), what exceeds a digit is moved up once more
\* (entries below 1002), and the carries left, each 0 or 1, are found by
\* looking back for the position that generates them: the evaluation
\* does not nest with the length of the number.
BigOfColumns(cols) ==
    LET n == Len(cols) + 4
        c == Listed(cols, Len(cols))
        u == Listed([i \in 1 .. n |->
                        (BigAt(c, i) % 1000)
                        + ((BigAt(c, i - 1) \div 1000) % 1000)
                        + (BigAt(c, i - 2) \div 1000000)], n)
        v == Listed([i \in 1 .. n |->
                        (u[i] % 1000) + (BigAt(u, i - 1) \div 1000)], n)
        generates == {j \in 1 .. n : v[j] >= 1000}
        carry(k) == \E j \in generates :
                        j < k /\ \A i \in (j + 1) .. (k - 1) : v[i] >= 999
    IN  BigTrim(Listed([k \in 1 .. n |->
                            (v[k] + (IF carry(k) THEN 1 ELSE 0)) % 1000], n))

BigAdd(a, b) ==
    LET n == IF Len(a) < Len(b) THEN Len(b) ELSE Len(a)
    IN  BigOfColumns([i \in 1 .. n |-> BigDigit(a, i) + BigDigit(b, i)])

\* the sum of a[i] * b[k + 1 - i] over lo .. hi
RECURSIVE BigColumn(_, _, _, _, _)
BigColumn(a, b, k, lo, hi) ==
    IF lo > hi THEN 0
    ELSE IF lo = hi THEN a[lo] * b[k + 1 - lo]
    ELSE LET mid == (lo + hi) \div 2
         IN  BigColumn(a, b, k, lo, mid) + BigColumn(a, b, k, mid + 1, hi)

BigMul(a, b) ==
    IF a = <<>> \/ b = <<>> THEN <<>>
    ELSE BigOfColumns(
            [k \in 1 .. (Len(a) + Len(b) - 1) |->
                BigColumn(a, b, k,
                          IF k > Len(b) THEN k + 1 - Len(b) ELSE 1,
                          IF k < Len(a) THEN k ELSE Len(a))])

\* a < b for numbers of the same length
BigLessDigits(a, b) ==
    LET differ == {i \in 1 .. Len(a) : a[i] # b[i]}
    IN  /\ differ # {}
        /\ LET top == CHOOSE i \in differ : \A j \in differ : j <= i
           IN  a[top] < b[top]

BigLess(a, b) ==
    IF Len(a) # Len(b) THEN Len(a) < Len(b) ELSE BigLessDigits(a, b)

\* a - b for a >= b: position k borrows when a lower position j has
\* a[j] < b[j] and the digits between j and k are equal
BigSub(a, b) ==
    LET lacks == {j \in 1 .. Len(a) : a[j] < BigDigit(b, j)}
        borrow(k) == \E j \in lacks :
                         j < k /\ \A i \in (j + 1) .. (k - 1) : a[i] <= BigDigit(b, i)
    IN  BigTrim(Listed([k \in 1 .. Len(a) |->
                            (a[k] - BigDigit(b, k) - (IF borrow(k) THEN 1 ELSE 0)
                             + 1000) % 1000], Len(a)))

\* The exponential of a log-domain double as a fraction of two such
\* numbers, not reduced to lowest terms: equality of two values is tested
\* by cross-multiplication, never by comparing the records.
RatW(n, d) == [num |-> BigOf(n), den |-> BigOf(d)]

ROneW == RatW(1, 1)

RMulW(x, y) == [num |-> BigMul(x.num, y.num), den |-> BigMul(x.den, y.den)]

\* x / y for y > 0
RDivW(x, y) == RMulW(x, [num |-> y.den, den |-> y.num])

RAddW(x, y) ==
    IF x.den = y.den
    THEN [num |-> BigAdd(x.num, y.num), den |-> x.den]
    ELSE [num |-> BigAdd(BigMul(x.num, y.den), BigMul(y.num, x.den)),
          den |-> BigMul(x.den, y.den)]

\* x < y
RLessW(x, y) == BigLess(BigMul(x.num, y.den), BigMul(y.num, x.den))

\* x = y
REqW(x, y) == BigMul(x.num, y.den) = BigMul(y.num, x.den)

\* max(x - y, 0)
RMonusW(x, y) ==
    IF RLessW(x, y) THEN RatW(0, 1)
    ELSE [num |-> BigSub(BigMul(x.num, y.den), BigMul(y.num, x.den)),
          den |-> BigMul(x.den, y.den)]

\* e^100 to 17 significant digits, 26881171418161356 * 10^27
Exp100W ==
    [num |-> <<0, 0, 0, 0, 0, 0, 0, 0, 0, 356, 161, 418, 171, 881, 26>>,
     den |-> <<1>>]

\* logAdd(log_x, log_y): log(x + y), but the larger of the two when their
\* logs differ by 100 or more
logAddW(x, y) ==
    LET swap == RLessW(y, x)
        lo == IF swap THEN y ELSE x
        hi == IF swap THEN x ELSE y
    IN  After(<<x, y>>,
              IF RLessW(hi, RMulW(Exp100W, lo)) THEN RAddW(lo, hi) ELSE hi)

\* KTEstimator()
KTInitW == [m_counts |-> <<0, 0>>, m_log_kt |-> ROneW]

\* an estimator that gives every bit the probability 1/2
KTprobW_Half(e, b) == RatW(1, 2)

\* KTEstimator::prob(b)
KTprobW(e, b) ==
    RatW(2 * e.m_counts[b + 1] + 1, 2 * (e.m_counts[1] + e.m_counts[2]) + 2)

\* KTEstimator::update(b)
KTupdateW(e, b) ==
    [m_counts |-> [e.m_counts EXCEPT ![b + 1] = @ + 1],
     m_log_kt |-> RMulW(e.m_log_kt, KTprobW(e, b))]

\* ActivePTWNode_t(arms)
ActivePTWNode_tW(K) ==
    [m_model |-> [k \in Arms(K) |-> KTInitW],
     m_log_weighted |-> ROneW,
     m_log_buf |-> ROneW]

RECURSIVE NodeMarginalUpToW(_, _)
NodeMarginalUpToW(node, k) ==
    IF k < 0 THEN ROneW
    ELSE RMulW(NodeMarginalUpToW(node, k - 1), node.m_model[k].m_log_kt)

\* ActivePTWNode_t::logMarginal()
NodeLogMarginalW(node) ==
    NodeMarginalUpToW(node, Cardinality(DOMAIN node.m_model) - 1)

\* the constructor's prior: x = (arms - 1) / arms and 1 - x
LogStopWeightW(K) == RatW(K - 1, K)
LogSplitWeightW(K) == RatW(1, K)

\* the bottom-up pass of ActivePTW::update, levels idx..D
RECURSIVE UpdatedNodesW(_, _, _, _, _, _)
UpdatedNodesW(ns, idx, D, K, r, k) ==
    LET model == [ns[idx].m_model EXCEPT ![k] = KTupdateW(@, r)]
        n1 == [ns[idx] EXCEPT !.m_model = model]
    IN  IF idx = D
        THEN (idx :> [n1 EXCEPT !.m_log_weighted = NodeLogMarginalW(n1)])
        ELSE LET below == UpdatedNodesW(ns, idx + 1, D, K, r, k)
                 lhs == RMulW(LogStopWeightW(K), NodeLogMarginalW(n1))
                 rhs == RMulW(RMulW(LogSplitWeightW(K),
                                    below[idx + 1].m_log_weighted),
                              n1.m_log_buf)
             IN  After(below,
                       (idx :> [n1 EXCEPT !.m_log_weighted = logAddW(lhs, rhs)])
                           @@ below)

\* an update that keeps the statistics below the change point
NodesAfterUpdateW_NoReset(ns, index, D, K, r, k) ==
    LET i == mscb(index + 1, D)
        buffered == [ns EXCEPT ![i].m_log_buf = ns[i + 1].m_log_weighted]
    IN  UpdatedNodesW(buffered, 0, D, K, r, k)

\* the nodes after ActivePTW::update(r, k)
NodesAfterUpdateW(ns, index, D, K, r, k) ==
    LET i == mscb(index + 1, D)
        buffered == [ns EXCEPT ![i].m_log_buf = ns[i + 1].m_log_weighted]
        reset == [j \in 0 .. D |->
                    IF j >= i + 1 THEN ActivePTWNode_tW(K) ELSE buffered[j]]
    IN  After(reset, UpdatedNodesW(reset, 0, D, K, r, k))

\* ActivePTW::levelPosterior(): the entries dest[0..i] and the mass left
\* after level i; max(left * (1 - stop_post), 0) is computed as
\* left * max(1 - stop_post, 0), the same value for left >= 0
RECURSIVE levelPosteriorUpToW(_, _, _)
levelPosteriorUpToW(ns, K, i) ==
    LET prev == IF i = 0 THEN [dest |-> <<>>, left |-> ROneW]
                ELSE levelPosteriorUpToW(ns, K, i - 1)
        stop_post == RDivW(RMulW(LogStopWeightW(K), NodeLogMarginalW(ns[i])),
                           ns[i].m_log_weighted)
    IN  After(<<prev, stop_post>>,
              [dest |-> Append(prev.dest, RMulW(prev.left, stop_post)),
               left |-> RMulW(prev.left, RMonusW(ROneW, stop_post))])

levelPosteriorW(ns, D, K) == levelPosteriorUpToW(ns, K, D).dest

VARIABLES
    w_depth,    \* ActivePTW::m_depth
    w_index,    \* ActivePTW::m_index
    w_nodes,    \* ActivePTW::m_nodes
    w_rewards,  \* history: the rewards given to update so far, all for arm 0
    w_seen      \* history: what levelPosterior() returned after each update

wideVars == <<w_depth, w_index, w_nodes, w_rewards, w_seen>>

\* the depths of the two scenarios of one arm's rewards: 8 = 2^3 updates
\* and 16 = 2^4 updates
WideDepths == {3, 4}

\* ActivePTW::ActivePTW(depth, 2)
WideInit ==
    /\ w_depth \in WideDepths
    /\ w_index = 0
    /\ w_nodes = [j \in 0 .. w_depth |-> ActivePTWNode_tW(2)]
    /\ w_rewards = <<>>
    /\ w_seen = <<>>

\* no such model takes part in the specification at hand
WideIdle ==
    /\ w_depth = 1
    /\ w_index = 0
    /\ w_nodes = [j \in 0 .. 1 |-> ActivePTWNode_tW(2)]
    /\ w_rewards = <<>>
    /\ w_seen = <<>>

\* the rewards change at most once: a stationary source, or one abrupt change
OneChange(rs) == Cardinality({i \in 1 .. (Len(rs) - 1) : rs[i] # rs[i + 1]}) <= 1

\* ActivePTW::update(r, 0) while the rewards so far change at most once,
\* and the levelPosterior() that follows it
WideUpdate(r) ==
    /\ w_index < Pow2(w_depth)
    /\ OneChange(Append(w_rewards, r))
    /\ w_nodes' = NodesAfterUpdateW(w_nodes, w_index, w_depth, 2, r, 0)
    /\ w_index' = w_index + 1
    /\ w_rewards' = Append(w_rewards, r)
    /\ w_seen' = Append(w_seen, levelPosteriorW(w_nodes', w_depth, 2))
    /\ UNCHANGED w_depth

\* an update that goes on when the assert on m_index does not hold, as
\* when the assert is compiled out
WideUpdateRefused_Unchecked ==
    /\ w_index >= Pow2(w_depth)
    /\ \E r \in 0 .. 1 :
          /\ w_nodes' = NodesAfterUpdateW(w_nodes, w_index, w_depth, 2, r, 0)
          /\ w_rewards' = Append(w_rewards, r)
    /\ w_index' = w_index + 1
    /\ UNCHANGED <<w_depth, w_seen, aborted>>

\* ActivePTW::update(r, k) when 2^m_depth updates were made: the assert
\* on m_index fails
WideUpdateRefused ==
    /\ w_index >= Pow2(w_depth)
    /\ ~aborted
    /\ aborted' = TRUE
    /\ UNCHANGED wideVars

(* ------------------------- the command line ----------------------------- *)

VARIABLES
    argv,        \* the arguments after the program name, as written
    Params,      \* params_t Params
    cli_pc,      \* where main is: "start", "parsed", "text", "loop", "plot",
                 \* "plotloop"; or how it ended: "done" (return 0), "exit1"
                 \* (die_with_error), "terminated" (uncaught exception),
                 \* "hung"
    cli_agent,   \* the agent createBanditAlgorithm built last: [name, window]
    cli_i,       \* plotMode's i, the index of the agent plotted
    cli_j,       \* plotMode's j, the repeat
    cli_t,       \* the loop's t, the trials of the current run made so far
    cli_ran      \* history: the trials run in all, counted up to MaxCliTrials

cliVars == <<argv, Params, cli_pc, cli_agent, cli_i, cli_j, cli_t, cli_ran>>

\* the command line has up to MaxArgs arguments; of the trials of a run
\* the first MaxCliTrials are followed one by one, and of the repeats of
\* plotMode the first MaxCliRepeats
MaxArgs == 2
MaxCliTrials == 2
MaxCliRepeats == 1

\* 2^64 and 2^32 in base-1000 digits
TwoTo64 == <<616, 551, 709, 73, 744, 446, 18>>
TwoTo32 == <<296, 967, 294, 4>>

\* the conversion of the int v to size_t
toSizeT(v) == IF v >= 0 THEN BigOf(v) ELSE BigSub(TwoTo64, BigOf(-v))

\* the conversion of the int v to unsigned int
toUnsigned(v) == IF v >= 0 THEN BigOf(v) ELSE BigSub(TwoTo32, BigOf(-v))

\* std::numeric_limits<size_t>::max()
SizeMax == BigSub(TwoTo64, BigOf(1))

DigitOf ==
    ("0" :> 0) @@ ("1" :> 1) @@ ("2" :> 2) @@ ("3" :> 3) @@ ("4" :> 4)
    @@ ("5" :> 5) @@ ("6" :> 6) @@ ("7" :> 7) @@ ("8" :> 8) @@ ("9" :> 9)

\* the number of digits at the front of the text s from position i on
RECURSIVE digitsFrom(_, _)
digitsFrom(s, i) ==
    IF i <= Len(s) /\ s[i] \in DOMAIN DigitOf THEN 1 + digitsFrom(s, i + 1) ELSE 0

\* the value of the digits s[i .. j]
RECURSIVE valueOf(_, _, _)
valueOf(s, i, j) ==
    IF j < i THEN 0 ELSE 10 * valueOf(s, i, j - 1) + DigitOf[s[j]]

RECURSIVE Pow10(_)
Pow10(n) == IF n = 0 THEN 1 ELSE 10 * Pow10(n - 1)

\* std::stoi(s) on a text of a few characters: an optional sign, then the
\* digits up to the first other character; std::invalid_argument is
\* thrown when there is no digit
stoi(s) ==
    LET signed == s # <<>> /\ s[1] \in {"-", "+"}
        first == IF signed THEN 2 ELSE 1
        n == digitsFrom(s, first)
        magnitude == valueOf(s, first, first + n - 1)
    IN  IF n = 0 THEN [thrown |-> TRUE, value |-> 0]
        ELSE [thrown |-> FALSE,
              value |-> IF signed /\ s[1] = "-" THEN -magnitude ELSE magnitude]

\* std::stod(s) on a text of a few characters: an optional sign, digits,
\* and an optional point with digits; thrown as for stoi
stod(s) ==
    LET signed == s # <<>> /\ s[1] \in {"-", "+"}
        first == IF signed THEN 2 ELSE 1
        n == digitsFrom(s, first)
        point == first + n
        f == IF point <= Len(s) /\ s[point] = "." THEN digitsFrom(s, point + 1) ELSE 0
        magnitude == Rat(valueOf(s, first, first + n - 1) * Pow10(f)
                             + valueOf(s, point + 1, point + f),
                         Pow10(f))
    IN  IF n + f = 0 THEN [thrown |-> TRUE, value |-> RZero]
        ELSE [thrown |-> FALSE,
              value |-> IF signed /\ s[1] = "-" THEN RSub(RZero, magnitude)
                                                ELSE magnitude]

\* the defaults of params_t: Trials, Arms, PlotRepeats, and CptRate = 0.002
DefaultTrials == 2500
DefaultArms == 10
DefaultPlotRepeats == 400
EnvSeed == 666
DefaultCptRate == Rat(2, 1000)

\* 'CptRate > 0 ? size_t(1.0 / CptRate + 0.5) : numeric_limits<size_t>::max()'
windowOfRate(rate) ==
    IF rate.num > 0 THEN BigOf((2 * rate.den + rate.num) \div (2 * rate.num))
    ELSE SizeMax

\* params_t as constructed: the initialiser of SWUCBWindow is evaluated
\* here, with the default CptRate
params_t ==
    [EnvSeed |-> BigOf(EnvSeed),
     AgentSeed |-> BigOf(AgentSeed),
     Trials |-> BigOf(DefaultTrials),
     Arms |-> BigOf(DefaultArms),
     Agent |-> "ActivePTW",
     Mode |-> "text",
     PlotRepeats |-> BigOf(DefaultPlotRepeats),
     CptRate |-> DefaultCptRate,
     SWUCBWindow |-> windowOfRate(DefaultCptRate),
     CptSchedule |-> "Geometric"]

\* the names createBanditAlgorithm knows
AgentNames ==
    {"ActivePTW", "UCB", "TS", "MALG", "KLUCB", "SWUCB", "ParanoidPTW",
     "Constant", "Uniform"}

\* the agents plotMode plots, in its order
PlotAgents == <<"UCB", "ActivePTW", "MALG", "TS", "KLUCB", "SWUCB", "ParanoidPTW">>

\* the arguments explored: a text with '=' splits into lhs and rhs at the
\* first '='; the rhs of a number is a sequence of characters, that of a
\* name a string
Argument(lhs, rhs) == [eq |-> TRUE, lhs |-> lhs, rhs |-> rhs]

Arguments ==
    {Argument(k, r) : k \in {"Trials", "Arms"},
                      r \in {<<"-", "1">>, <<"0">>, <<"1">>, <<"2">>, <<"x">>}}
    \cup {Argument("SWUCBWindow", r) : r \in {<<"0">>, <<"2">>}}
    \cup {Argument("PlotRepeats", r) : r \in {<<"0">>, <<"1">>}}
    \cup {Argument("EnvSeed", <<"1">>), Argument("AgentSeed", <<"-", "1">>)}
    \cup {Argument("Agent", r) : r \in AgentNames \cup {"Bogus"}}
    \cup {Argument("Mode", r) : r \in {"text", "plot", "gui"}}
    \cup {Argument("CptSchedule", r) : r \in {"Geometric", "Nasty", "Bogus"}}
    \cup {Argument("CptRate", r) :
            r \in {<<"0">>, <<"0", ".", "0", "1">>, <<"0", ".", "5">>, <<"1">>,
                   <<"-", "0", ".", "5">>}}
    \cup {Argument("Bogus", <<"1">>)}
    \cup {[eq |-> FALSE, lhs |-> "Trials", rhs |-> <<>>]}

\* one round of processCmdLine's loop on the argument a: the Params it
\* leaves and how it ends ("next": the loop goes on)
processArgument(P, a) ==
    LET n == stoi(a.rhs)
        d == stod(a.rhs)
        number(field, least, convert(_)) ==
            IF n.thrown THEN [Params |-> P, end |-> "terminated"]
            ELSE LET Q == [P EXCEPT ![field] = convert(n.value)]
                 IN  [Params |-> Q,
                      end |-> IF BigLess(Q[field], BigOf(least)) THEN "exit1"
                                                                 ELSE "next"]
    IN  IF ~a.eq THEN [Params |-> P, end |-> "exit1"]
        ELSE CASE a.lhs = "EnvSeed" -> number("EnvSeed", 0, toUnsigned)
               [] a.lhs = "AgentSeed" -> number("AgentSeed", 0, toUnsigned)
               [] a.lhs = "Trials" -> number("Trials", 1, toSizeT)
               [] a.lhs = "PlotRepeats" -> number("PlotRepeats", 1, toSizeT)
               [] a.lhs = "SWUCBWindow" -> number("SWUCBWindow", 1, toSizeT)
               [] a.lhs = "Arms" -> number("Arms", 2, toSizeT)
               [] a.lhs = "Agent" ->
                    [Params |-> [P EXCEPT !.Agent = a.rhs], end |-> "next"]
               [] a.lhs = "CptSchedule" ->
                    [Params |-> [P EXCEPT !.CptSchedule = a.rhs], end |-> "next"]
               [] a.lhs = "Mode" ->
                    [Params |-> [P EXCEPT !.Mode = a.rhs],
                     end |-> IF a.rhs # "text" /\ a.rhs # "plot" THEN "exit1"
                                                                  ELSE "next"]
               [] a.lhs = "CptRate" ->
                    IF d.thrown THEN [Params |-> P, end |-> "terminated"]
                    ELSE [Params |-> [P EXCEPT !.CptRate = d.value],
                          end |-> IF RLeq(ROne, d.value) THEN "exit1" ELSE "next"]
               [] OTHER -> [Params |-> P, end |-> "exit1"]

\* processCmdLine from argument i on
RECURSIVE processFrom(_, _, _)
processFrom(P, args, i) ==
    IF i > Len(args) THEN [Params |-> P, end |-> "parsed"]
    ELSE LET one == processArgument(P, args[i])
         IN  IF one.end = "next" THEN processFrom(one.Params, args, i + 1)
             ELSE one

\* what processCmdLine makes of the command line written
asParsed == processFrom(params_t, argv, 1)

\* the conversion of the size_t x to unsigned int, for x < 2^33
narrowed(x) == IF BigLess(x, TwoTo32) THEN x ELSE BigSub(x, TwoTo32)

\* the program as started: Params holds its defaults
CliInit ==
    /\ argv \in UNION {[1 .. n -> Arguments] : n \in 0 .. MaxArgs}
    /\ Params = params_t
    /\ cli_pc = "start"
    /\ cli_agent = [name |-> "", window |-> <<>>]
    /\ cli_i = 0
    /\ cli_j = 0
    /\ cli_t = <<>>
    /\ cli_ran = 0

\* the program takes no part in the specification at hand
CliIdle ==
    /\ argv = <<>>
    /\ Params = params_t
    /\ cli_pc = "start"
    /\ cli_agent = [name |-> "", window |-> <<>>]
    /\ cli_i = 0
    /\ cli_j = 0
    /\ cli_t = <<>>
    /\ cli_ran = 0

\* processCmdLine(argc, argv)
ProcessCmdLine ==
    /\ cli_pc = "start"
    /\ LET out == processFrom(Params, argv, 1)
       IN  Params' = out.Params /\ cli_pc' = out.end
    /\ UNCHANGED <<argv, cli_agent, cli_i, cli_j, cli_t, cli_ran>>

\* main after processCmdLine: textMode() or plotMode()
Main ==
    /\ cli_pc = "parsed"
    /\ cli_pc' = IF Params.Mode = "text" THEN "text"
                 ELSE IF Params.Mode = "plot" THEN "plot" ELSE "done"
    /\ UNCHANGED <<argv, Params, cli_agent, cli_i, cli_j, cli_t, cli_ran>>

\* how createBanditProblem() can end: die_with_error on another schedule
\* than Nasty and Geometric; std::length_error from the vectors of Arms
\* elements when Arms exceeds what a vector holds; and, for a CptRate that
\* is not positive, whatever std::geometric_distribution does outside its
\* precondition 0 < p < 1: the constructor's loop ends or does not
createBanditProblemEnds(P) ==
    IF P.CptSchedule \notin {"Nasty", "Geometric"} THEN {"exit1"}
    ELSE IF BigLess(BigOf(1000000000), P.Arms) THEN {"terminated"}
    ELSE IF P.CptSchedule = "Geometric" /\ P.CptRate.num <= 0 THEN {"built", "hung"}
    ELSE {"built"}

\* how createBanditAlgorithm() ends
createBanditAlgorithmEnds(P) == IF P.Agent \in AgentNames THEN "built" ELSE "exit1"

\* createBanditProblem(), then createBanditAlgorithm(): position, agent
created(P, running, bp) ==
    IF bp # "built" THEN [pc |-> bp, agent |-> cli_agent]
    ELSE IF createBanditAlgorithmEnds(P) # "built"
    THEN [pc |-> "exit1", agent |-> cli_agent]
    ELSE [pc |-> running,
          agent |-> [name |-> P.Agent,
                     window |-> IF P.Agent = "SWUCB" THEN P.SWUCBWindow ELSE <<>>]]

\* textMode() up to its loop
TextCreate ==
    /\ cli_pc = "text"
    /\ \E bp \in createBanditProblemEnds(Params) :
          LET c == created(Params, "loop", bp)
          IN  cli_pc' = c.pc /\ cli_agent' = c.agent
    /\ cli_t' = <<>>
    /\ UNCHANGED <<argv, Params, cli_i, cli_j, cli_ran>>

\* one round of an agent <-> environment loop: getAction, pull, update
Trial ==
    /\ BigLess(cli_t, Params.Trials)
    /\ BigLess(cli_t, BigOf(MaxCliTrials))
    /\ cli_t' = BigAdd(cli_t, BigOf(1))
    /\ cli_ran' = IF cli_ran < MaxCliTrials THEN cli_ran + 1 ELSE cli_ran

\* the rounds of a loop after the first MaxCliTrials, in one step
TrialsLeft ==
    /\ BigLess(cli_t, Params.Trials)
    /\ ~BigLess(cli_t, BigOf(MaxCliTrials))
    /\ cli_t' = Params.Trials
    /\ UNCHANGED cli_ran

TextTrial ==
    /\ cli_pc = "loop"
    /\ Trial
    /\ UNCHANGED <<argv, Params, cli_pc, cli_agent, cli_i, cli_j>>

TextTrialsLeft ==
    /\ cli_pc = "loop"
    /\ TrialsLeft
    /\ UNCHANGED <<argv, Params, cli_pc, cli_agent, cli_i, cli_j>>

\* textMode() after its loop: showSummary, return 0
TextEnd ==
    /\ cli_pc = "loop"
    /\ ~BigLess(cli_t, Params.Trials)
    /\ cli_pc' = "done"
    /\ UNCHANGED <<argv, Params, cli_agent, cli_i, cli_j, cli_t, cli_ran>>

\* plotMode(): the body of the loop over j up to its loop over t; the
\* agent's name is agents[i] and its seed original_agent_seed + j, where
\* original_agent_seed is the AgentSeed processCmdLine left
PlotCreate ==
    /\ cli_pc = "plot"
    /\ cli_i < Len(PlotAgents)
    /\ BigLess(BigOf(cli_j), Params.PlotRepeats)
    /\ \E bp \in createBanditProblemEnds(Params) :
          LET P == IF bp = "built"
                   THEN [Params EXCEPT
                            !.Agent = PlotAgents[cli_i + 1],
                            !.AgentSeed =
                                narrowed(BigAdd(asParsed.Params.AgentSeed,
                                                BigOf(cli_j)))]
                   ELSE Params
              c == created(P, "plotloop", bp)
          IN  Params' = P /\ cli_pc' = c.pc /\ cli_agent' = c.agent
    /\ cli_t' = <<>>
    /\ UNCHANGED <<argv, cli_i, cli_j, cli_ran>>

PlotTrial ==
    /\ cli_pc = "plotloop"
    /\ Trial
    /\ UNCHANGED <<argv, Params, cli_pc, cli_agent, cli_i, cli_j>>

PlotTrialsLeft ==
    /\ cli_pc = "plotloop"
    /\ TrialsLeft
    /\ UNCHANGED <<argv, Params, cli_pc, cli_agent, cli_i, cli_j>>

\* plotMode(): the end of a loop over t: the next repeat, or the next
\* agent after the last repeat; the repeats after the first MaxCliRepeats
\* are passed over
PlotNext ==
    /\ cli_pc = "plotloop"
    /\ ~BigLess(cli_t, Params.Trials)
    /\ IF cli_j + 1 < MaxCliRepeats /\ BigLess(BigOf(cli_j + 1), Params.PlotRepeats)
       THEN cli_j' = cli_j + 1 /\ UNCHANGED cli_i
       ELSE cli_j' = 0 /\ cli_i' = cli_i + 1
    /\ cli_pc' = "plot"
    /\ UNCHANGED <<argv, Params, cli_agent, cli_t, cli_ran>>

\* plotMode() after its loops: return 0
PlotEnd ==
    /\ cli_pc = "plot"
    /\ cli_i >= Len(PlotAgents)
    /\ cli_pc' = "done"
    /\ UNCHANGED <<argv, Params, cli_agent, cli_i, cli_j, cli_t, cli_ran>>

(* --------------------- KLUCBStrategy::maxRelEntropy --------------------- *)

VARIABLE bisect   \* a call of maxRelEntropy: its arguments, its locals low and
                  \* high, the passes of its loop made, and its position

VARIABLES
    strat,    \* a UCBStrategy, KLUCBStrategy or SlidingUCBStrategy object
    called,   \* the last call made on it: its name, the arm returned or
              \* passed, and what the calls of ucb / klUCB in it read
    ncalls,   \* the number of calls made on it
    played    \* history: the arms passed to update since the construction
              \* or the last reset, oldest first

callVars == <<strat, called, ncalls, played>>

VARIABLE stats   \* plotMode after the runs of an agent: Trials, PlotRepeats,
                 \* regrets[i], means[i], cis[i], what is written and the
                 \* position

\* the components added last
moreVars == <<bisect, callVars, stats>>

\* the arm of the call has up to MaxKLVisits visits
MaxKLVisits == 3

\* 1 / eps for 'constexpr double eps = 1.0e-8'
EpsInverse == 100000000

\* the values taken for f(t) = 1 + t log(t)^2 of klUCB, each above 1; the
\* bound of the call is ub = log(f(t)) / m_arm_visits[arm]
BoundValues == {Rat(3, 2), Rat(2, 1), Rat(10, 1), Rat(1000, 1)}

RECURSIVE BigPow(_, _)
BigPow(x, e) == IF e = 0 THEN <<1>> ELSE BigMul(x, BigPow(x, e - 1))

\* the product of the integers x and y
BigTimes(x, y) == BigMul(BigOf(x), BigOf(y))

\* whether (a / b)^i * (c / d)^j > F, for a, b, c, d of any size
powersAbove(a, b, i, c, d, j, F) ==
    BigLess(BigMul(BigOf(F.num), BigMul(BigPow(b, i), BigPow(d, j))),
            BigMul(BigOf(F.den), BigMul(BigPow(a, i), BigPow(c, j))))

\* 'bernoulliRelEntropy(p, q) > ub' for p = s / n, q = Q / D and
\* ub = log(F) / n, decided without logarithms: n times the entropy is the
\* logarithm of (p/q)^s ((1-p)/(1-q))^(n-s), so the test is whether that
\* product is above F.  The cases are those of bernoulliRelEntropy: NaN
\* (no comparison holds), 0, -log(1 - q), -log(q), infinity, and the sum.
relEntropyAbove(s, n, Q, D, F) ==
    IF s < 0 \/ Q < 0 \/ s > n \/ Q > D THEN FALSE
    ELSE IF s = 0 /\ Q = 0 THEN FALSE
    ELSE IF s = n /\ Q = D THEN FALSE
    ELSE IF s = 0 THEN powersAbove(<<1>>, <<1>>, 0, BigOf(D), BigOf(D - Q), n, F)
    ELSE IF s = n THEN powersAbove(BigOf(D), BigOf(Q), n, <<1>>, <<1>>, 0, F)
    ELSE IF Q = 0 \/ Q = D THEN TRUE
    ELSE powersAbove(BigTimes(s, D), BigTimes(n, Q), s,
                     BigTimes(n - s, D), BigTimes(n, D - Q), n - s, F)

\* maxRelEntropy(p, ub) at its loop, for p = s / n and ub = log(F) / n:
\* low = p and high = 1.0, held as the numerators low and high over the
\* denominator n * 2^k, where k counts the passes made
maxRelEntropyEntered(s, n, F) ==
    [s |-> s, n |-> n, F |-> F, k |-> 0, low |-> s, high |-> n, pc |-> "loop"]

\* '(high - low) > eps'
widerThanEps(b) == (b.high - b.low) * EpsInverse > b.n * Pow2(b.k)

\* a pass that moves low where the entropy is above ub, and high otherwise
bisected_Swapped(b) ==
    LET q == b.low + b.high
        above == relEntropyAbove(b.s, b.n, q, 2 * b.n * Pow2(b.k), b.F)
        moved == [b EXCEPT !.k = @ + 1,
                           !.low = IF above THEN q ELSE 2 * b.low,
                           !.high = IF above THEN 2 * b.high ELSE q]
    IN  [moved EXCEPT !.pc = IF widerThanEps(moved) THEN "loop" ELSE "done"]

\* one pass of the do-while loop of maxRelEntropy and its test:
\* q = low + (high - low) / 2 has the numerator low + high over twice the
\* denominator; high = q if bernoulliRelEntropy(p, q) > ub, else low = q
bisected(b) ==
    LET q == b.low + b.high
        above == relEntropyAbove(b.s, b.n, q, 2 * b.n * Pow2(b.k), b.F)
        moved == [b EXCEPT !.k = @ + 1,
                           !.low = IF above THEN 2 * b.low ELSE q,
                           !.high = IF above THEN q ELSE 2 * b.high]
    IN  [moved EXCEPT !.pc = IF widerThanEps(moved) THEN "loop" ELSE "done"]

\* the call maxRelEntropy(s / n, log(F) / n) of klUCB for an arm of n
\* visits and s successes
BisectInit ==
    \E n \in 1 .. MaxKLVisits : \E s \in 0 .. n : \E F \in BoundValues :
        bisect = maxRelEntropyEntered(s, n, F)

\* no call takes part in the specification at hand
BisectIdle == bisect = [maxRelEntropyEntered(1, 1, Rat(2, 1)) EXCEPT !.pc = "idle"]

\* a pass of the loop after which it goes on
BisectNarrow ==
    /\ bisect.pc = "loop"
    /\ bisected(bisect).pc = "loop"
    /\ bisect' = bisected(bisect)

\* the last pass of the loop; 'return low'
BisectReturn ==
    /\ bisect.pc = "loop"
    /\ bisected(bisect).pc = "done"
    /\ bisect' = bisected(bisect)

(* ---- UCB, KL-UCB and Sliding-UCB under any sequence of calls ------------ *)

\* the arms of the strategy, the window of Sliding-UCB and the calls made
MaxCallArms == 2
MaxCallWindow == 2
MaxCalls == 5

\* a reset that leaves the visit counts of the arms
KLUCBStrategy_reset_KeepsArmVisits(u) ==
    [u EXCEPT !.m_visits = 0,
              !.m_arm_successes = [a \in Arms(u.m_arms) |-> 0]]

\* KLUCBStrategy::reset()
KLUCBStrategy_reset(u) ==
    [u EXCEPT !.m_visits = 0,
              !.m_arm_successes = [a \in Arms(u.m_arms) |-> 0],
              !.m_arm_visits = [a \in Arms(u.m_arms) |-> 0]]

\* SlidingUCBStrategy::reset()
SlidingUCBStrategy_reset(u) ==
    [u EXCEPT !.m_plays = <<>>,
              !.m_rewards = <<>>,
              !.m_arm_cumm_reward = [a \in Arms(u.m_arms) |-> 0],
              !.m_arm_visits = [a \in Arms(u.m_arms) |-> 0]]

\* what ucb(arm) / klUCB(arm) divides by and takes the logarithm of:
\* m_arm_visits[arm], and m_visits (UCB), m_visits + 1 (KL-UCB, whose
\* assert reads m_arm_visits[arm]) or m_plays.size() (Sliding-UCB)
scoreReads(u, arm) ==
    [arm |-> arm,
     visits |-> u.m_arm_visits[arm],
     total |-> IF u.kind = "SWUCB" THEN Len(u.m_plays) ELSE u.m_visits]

\* the calls of ucb / klUCB a getAction makes: none when it returns an
\* unvisited arm, one for every arm otherwise
scoresEvaluated(u) ==
    IF unvisitedArms(u.m_arm_visits) # {}
    THEN {}
    ELSE {scoreReads(u, i) : i \in Arms(u.m_arms)}

\* getAction(), update(arm, reward) and reset() of the three strategies
strategyGetAction(u) ==
    CASE u.kind = "UCB" -> UCBStrategy_getAction(u)
      [] u.kind = "KLUCB" -> KLUCBStrategy_getAction(u)
      [] u.kind = "SWUCB" -> SlidingUCBStrategy_getAction(u)

strategyUpdate(u, arm, reward) ==
    CASE u.kind = "UCB" -> UCBStrategy_update(u, arm, reward)
      [] u.kind = "KLUCB" -> KLUCBStrategy_update(u, arm, reward)
      [] u.kind = "SWUCB" -> SlidingUCBStrategy_update(u, arm, reward)

strategyReset(u) ==
    CASE u.kind = "UCB" -> UCBStrategy_reset(u)
      [] u.kind = "KLUCB" -> KLUCBStrategy_reset(u)
      [] u.kind = "SWUCB" -> SlidingUCBStrategy_reset(u)

\* no call made yet
notCalled == [op |-> "none", arm |-> 0, scored |-> {}]

\* a strategy as constructed
CallsInit ==
    /\ \E K \in 1 .. MaxCallArms :
          strat \in {UCBStrategy(K), KLUCBStrategy(K)}
                      \cup {SlidingUCBStrategy(K, W) : W \in 0 .. MaxCallWindow}
    /\ called = notCalled
    /\ ncalls = 0
    /\ played = <<>>

CallsIdle ==
    /\ strat = UCBStrategy(1)
    /\ called = [notCalled EXCEPT !.op = "idle"]
    /\ ncalls = 0
    /\ played = <<>>

\* a = getAction()
CallGetAction ==
    /\ called.op # "idle"
    /\ ncalls < MaxCalls
    /\ \E a \in strategyGetAction(strat) :
          called' = [op |-> "getAction", arm |-> a,
                     scored |-> scoresEvaluated(strat)]
    /\ ncalls' = ncalls + 1
    /\ UNCHANGED <<strat, played>>

\* update(arm, reward), of any arm and reward
CallUpdate ==
    /\ called.op # "idle"
    /\ ncalls < MaxCalls
    /\ \E arm \in Arms(strat.m_arms) : \E reward \in {0, 1} :
          /\ strat' = strategyUpdate(strat, arm, reward)
          /\ called' = [op |-> "update", arm |-> arm, scored |-> {}]
          /\ played' = Append(played, arm)
    /\ ncalls' = ncalls + 1

\* reset()
CallReset ==
    /\ called.op # "idle"
    /\ ncalls < MaxCalls
    /\ strat' = strategyReset(strat)
    /\ called' = [notCalled EXCEPT !.op = "reset"]
    /\ ncalls' = ncalls + 1
    /\ played' = <<>>

(* ---------------- plotMode: the means and the intervals ----------------- *)

\* Params.Trials and Params.PlotRepeats of the run
MaxPlotTrials == 2
MaxPlotRepeats == 2

\* the regrets a run can record at a trial
RegretValues == {RZero, ROne}

\* what a read past the end of means[i] can give
StrayValues == {RZero, ROne}

RECURSIVE RSum(_)
RSum(s) == IF s = <<>> THEN RZero ELSE RAdd(Head(s), RSum(Tail(s)))

\* 'total += regrets[i][j][t-1]' over j, then 'total / Params.PlotRepeats':
\* means[i], one entry for each t = 1 .. Trials
meansOf(regrets, T, R) ==
    [t \in 1 .. T |->
        RDiv(RSum([j \in 1 .. R |-> regrets[j][t]]), Rat(R, 1))]

\* 'total += std::pow(x - m, 2.0)' over j, x the regret of run j and m the
\* mean read for run j
sumOfSquares(xs, ms) ==
    RSum([j \in DOMAIN xs |-> LET d == RSub(xs[j], ms[j]) IN RMul(d, d)])

\* 'var = total / (repeats - 1.0)' and the entry of cis made of it,
\* 1.96 * sqrt(var) / sqrt(repeats), kept as its square over 1.96^2,
\* var / repeats; a division of doubles by 0.0 gives NaN for 0.0 / 0.0
\* and +inf for a positive total
intervalOf(total, R) ==
    IF R > 1
    THEN [kind |-> "finite",
          value |-> RDiv(RDiv(total, Rat(R - 1, 1)), Rat(R, 1))]
    ELSE [kind |-> IF total = RZero THEN "nan" ELSE "inf", value |-> RZero]

\* the regrets of the runs at trial t, regrets[i][j][t-1] for each j
atTrial(s, t) == [j \in 1 .. s.PlotRepeats |-> s.regrets[j][t]]

\* the values 'means[i][j]' can give for j = 0 .. PlotRepeats - 1: the
\* entry j of means[i] where there is one, anything past its end
meansRead(s) ==
    {ms \in [1 .. s.PlotRepeats -> {s.means[t] : t \in 1 .. s.Trials}
                                      \cup StrayValues] :
        \A j \in 1 .. s.PlotRepeats : j <= s.Trials => ms[j] = s.means[j]}

\* the agent <-> environment loops have filled regrets[i]: PlotRepeats runs
\* of Trials regrets each
StatsInit ==
    \E T \in 1 .. MaxPlotTrials : \E R \in 1 .. MaxPlotRepeats :
        \E regrets \in [1 .. R -> [1 .. T -> RegretValues]] :
            stats = [Trials |-> T, PlotRepeats |-> R, regrets |-> regrets,
                     means |-> <<>>, cis |-> <<>>, written |-> <<>>,
                     pastEnd |-> FALSE, pc |-> "means"]

StatsIdle ==
    stats = [Trials |-> 1, PlotRepeats |-> 1, regrets |-> <<<<RZero>>>>,
             means |-> <<>>, cis |-> <<>>, written |-> <<>>,
             pastEnd |-> FALSE, pc |-> "idle"]

\* the loop '// compute mean' of an agent
ComputeMeans ==
    /\ stats.pc = "means"
    /\ stats' = [stats EXCEPT
                    !.means = meansOf(stats.regrets, stats.Trials,
                                      stats.PlotRepeats),
                    !.pc = "cis"]

\* the entry of cis for trial t, with ms the means read
ciComputed(s, ms) ==
    LET t == Len(s.cis) + 1
    IN  [s EXCEPT !.cis = Append(@, intervalOf(sumOfSquares(atTrial(s, t), ms),
                                               s.PlotRepeats)),
                  !.pc = IF t = s.Trials THEN "write" ELSE "cis"]

\* a pass of the loop '// compute CI' over t, every read of means[i] within
\* its size
ComputeCI ==
    /\ stats.pc = "cis"
    /\ stats.PlotRepeats <= stats.Trials
    /\ \E ms \in meansRead(stats) : stats' = ciComputed(stats, ms)

\* the same with PlotRepeats > Trials: means[i][j] is read past the end
\* of means[i], which gives any value ...
ComputeCIPastEnd ==
    /\ stats.pc = "cis"
    /\ stats.PlotRepeats > stats.Trials
    /\ \E ms \in meansRead(stats) :
          stats' = [ciComputed(stats, ms) EXCEPT !.pastEnd = TRUE]

\* ... or ends the process
ComputeCIFault ==
    /\ stats.pc = "cis"
    /\ stats.PlotRepeats > stats.Trials
    /\ stats' = [stats EXCEPT !.pastEnd = TRUE, !.pc = "fault"]

\* '// write datapoints': means[i][t-1], and means[i][t-1] +/- cis[i][t-1]
WriteDatapoints ==
    /\ stats.pc = "write"
    /\ stats' = [stats EXCEPT
                    !.written = [t \in 1 .. stats.Trials |->
                                    [mean |-> stats.means[t],
                                     ci |-> stats.cis[t]]],
                    !.pc = "done"]

MoreIdle == BisectIdle /\ CallsIdle /\ StatsIdle

\* the components that take no part in the specifications of the others
restVars == <<twinVars, fed, wideVars, cliVars, moreVars>>

RestIdle == TwinIdle /\ WindowIdle /\ WideIdle /\ CliIdle /\ MoreIdle

(* --------------------------- specifications ---------------------------- *)

vars == <<m_depth, m_arms, m_index, m_nodes, obs, kt, bits,
          m_thetas, m_num_trials, m_cumm_reward, m_exp_cumm_reward,
          m_change_schedule, exited, exp_pulled,
          alg, n_arms, pc, action, trials, pulls, aborted, restVars>>

\* an ActivePTW under update(r, k)
InitPTW == PTWInit /\ KTStart /\ EnvIdle /\ PolicyIdle /\ RestIdle

NextPTW ==
    \E r \in 0 .. 1 : \E k \in Arms(m_arms) :
        PTWUpdate(r, k) /\ UNCHANGED <<ktVars, envVars, policyVars, restVars>>

SpecPTW == InitPTW /\ [][NextPTW]_vars

\* a KTEstimator under update(b)
InitKT == KTStart /\ PTWIdle /\ EnvIdle /\ PolicyIdle /\ RestIdle

NextKT ==
    \E b \in 0 .. 1 :
        KTUpdateStep(b) /\ UNCHANGED <<ptwVars, envVars, policyVars, restVars>>

SpecKT == InitKT /\ [][NextKT]_vars

\* a StochasticBanditProblem under pull(arm_index)
InitEnv == EnvInit /\ PTWIdle /\ KTStart /\ PolicyIdle /\ RestIdle

NextEnv ==
    \/ \E a \in DOMAIN m_thetas : \E flip \in 0 .. 1 :
          \E next \in ThetasAfterPull(m_change_schedule, m_num_trials + 1, m_thetas) :
              Pull(a, flip, next) /\ UNCHANGED <<ptwVars, ktVars, policyVars, restVars>>
    \/ PullInvalid /\ UNCHANGED <<ptwVars, ktVars, policyVars, restVars>>

SpecEnv == InitEnv /\ [][NextEnv]_vars

\* UCB1, KL-UCB and Sliding-UCB in the loop 'a = getAction(); update(a, r)'
InitLoop ==
    PolicyInit({"UCB", "KLUCB", "SWUCB"}) /\ KTStart /\ EnvIdle /\ RestIdle

NextLoop ==
    \/ UCBGetAction /\ UNCHANGED <<ktVars, envVars, restVars>>
    \/ \E r \in 0 .. 1 :
          /\ trials < MaxLoopTrials
          /\ UCBUpdate(action, r)
          /\ pulls' = Append(pulls, action)
          /\ UNCHANGED <<ktVars, envVars, restVars>>
    \/ KLUCBGetAction /\ UNCHANGED <<ktVars, envVars, restVars>>
    \/ \E r \in 0 .. 1 :
          /\ trials < MaxLoopTrials
          /\ KLUCBUpdate(action, r)
          /\ pulls' = Append(pulls, action)
          /\ UNCHANGED <<ktVars, envVars, restVars>>
    \/ SlidingUCBGetAction /\ UNCHANGED <<ktVars, envVars, restVars>>
    \/ \E r \in 0 .. 1 :
          /\ trials < MaxLoopTrials
          /\ SlidingUCBUpdate(action, r)
          /\ pulls' = Append(pulls, action)
          /\ UNCHANGED <<ktVars, envVars, restVars>>

SpecLoop == InitLoop /\ [][NextLoop]_vars

\* MalgUCB under alternating getAction() and update(arm, reward)
InitMalg == PolicyInit({"MALG"}) /\ KTStart /\ EnvIdle /\ RestIdle

NextMalg ==
    \/ MalgGetAction /\ UNCHANGED <<ktVars, envVars, restVars>>
    \/ \E arm \in Arms(n_arms) : \E r \in 0 .. 1 :
          /\ trials < MaxSteps
          /\ MalgUpdate(arm, r)
          /\ UNCHANGED <<pulls, ktVars, envVars, restVars>>

SpecMalg == InitMalg /\ [][NextMalg]_vars

\* every policy under alternating getAction() and update(arm, reward)
InitPolicy ==
    /\ PolicyInit({"UCB", "KLUCB", "SWUCB", "MALG", "TS", "ActivePTW",
                   "ParanoidPTW", "Uniform", "Constant", "MASTER"})
    /\ KTStart
    /\ EnvIdle
    /\ RestIdle

NextPolicy ==
    \/ UCBGetAction /\ UNCHANGED <<ktVars, envVars, restVars>>
    \/ KLUCBGetAction /\ UNCHANGED <<ktVars, envVars, restVars>>
    \/ SlidingUCBGetAction /\ UNCHANGED <<ktVars, envVars, restVars>>
    \/ MalgGetAction /\ UNCHANGED <<ktVars, envVars, restVars>>
    \/ TSGetAction /\ UNCHANGED <<ktVars, envVars, restVars>>
    \/ ActivePTWGetAction /\ UNCHANGED <<ktVars, envVars, restVars>>
    \/ ParanoidPTWGetAction /\ UNCHANGED <<ktVars, envVars, restVars>>
    \/ UniformGetAction /\ UNCHANGED <<ktVars, envVars, restVars>>
    \/ ConstantGetAction /\ UNCHANGED <<ktVars, envVars, restVars>>
    \/ MasterGetAction /\ UNCHANGED <<ktVars, envVars, restVars>>
    \/ \E arm \in Arms(n_arms) : \E r \in 0 .. 1 :
          /\ trials < MaxSteps
          /\ UCBUpdate(arm, r)
          /\ UNCHANGED <<pulls, ktVars, envVars, restVars>>
    \/ \E arm \in Arms(n_arms) : \E r \in 0 .. 1 :
          /\ trials < MaxSteps
          /\ KLUCBUpdate(arm, r)
          /\ UNCHANGED <<pulls, ktVars, envVars, restVars>>
    \/ \E arm \in Arms(n_arms) : \E r \in 0 .. 1 :
          /\ trials < MaxSteps
          /\ SlidingUCBUpdate(arm, r)
          /\ UNCHANGED <<pulls, ktVars, envVars, restVars>>
    \/ \E arm \in Arms(n_arms) : \E r \in 0 .. 1 :
          /\ trials < MaxSteps
          /\ MalgUpdate(arm, r)
          /\ UNCHANGED <<pulls, ktVars, envVars, restVars>>
    \/ \E arm \in Arms(n_arms) : \E r \in 0 .. 1 :
          /\ trials < MaxSteps
          /\ TSUpdate(arm, r)
          /\ UNCHANGED <<pulls, ktVars, envVars, restVars>>
    \/ \E arm \in Arms(n_arms) : \E r \in 0 .. 1 :
          /\ trials < MaxSteps
          /\ ActivePTWUpdate(arm, r)
          /\ UNCHANGED <<pulls, ktVars, envVars, restVars>>
    \/ \E arm \in Arms(n_arms) : \E r \in 0 .. 1 :
          /\ trials < MaxSteps
          /\ ParanoidPTWUpdate(arm, r)
          /\ UNCHANGED <<pulls, ktVars, envVars, restVars>>
    \/ \E arm \in Arms(n_arms) : \E r \in 0 .. 1 :
          /\ trials < MaxSteps
          /\ UniformUpdate(arm, r)
          /\ UNCHANGED <<pulls, ktVars, envVars, restVars>>
    \/ \E arm \in Arms(n_arms) : \E r \in 0 .. 1 :
          /\ trials < MaxSteps
          /\ ConstantUpdate(arm, r)
          /\ UNCHANGED <<pulls, ktVars, envVars, restVars>>
    \/ \E arm \in Arms(n_arms) : \E r \in 0 .. 1 :
          /\ trials < MaxSteps
          /\ MasterUpdate(arm, r)
          /\ UNCHANGED <<pulls, ktVars, envVars, restVars>>

SpecPolicy == InitPolicy /\ [][NextPolicy]_vars

\* two policies of one seed under the same getAction() / update(arm, reward)
InitTwin ==
    TwinInit /\ PTWIdle /\ KTStart /\ EnvIdle /\ PolicyIdle /\ WindowIdle /\ WideIdle
    /\ CliIdle /\ MoreIdle

NextTwin ==
    \/ TwinGetFirst /\ UNCHANGED <<ptwVars, ktVars, envVars, policyVars, fed, wideVars, cliVars, moreVars>>
    \/ TwinGetSecond /\ UNCHANGED <<ptwVars, ktVars, envVars, policyVars, fed, wideVars, cliVars, moreVars>>
    \/ \E arm \in Arms(twin[1].n_arms) : \E r \in 0 .. 1 :
          /\ rounds < MaxTwinSteps
          /\ TwinUpdate(arm, r)
          /\ UNCHANGED <<ptwVars, ktVars, envVars, policyVars, fed, wideVars, cliVars, moreVars>>

SpecTwin == InitTwin /\ [][NextTwin]_vars

\* a SlidingUCBStrategy under any sequence of updates
InitWindow ==
    WindowInit /\ PTWIdle /\ KTStart /\ EnvIdle /\ TwinIdle /\ WideIdle /\ CliIdle /\ MoreIdle

NextWindow ==
    \E arm \in Arms(n_arms) : \E r \in 0 .. 1 :
        /\ trials < MaxFed
        /\ WindowUpdate(arm, r)
        /\ UNCHANGED <<ptwVars, ktVars, envVars, twinVars, wideVars, cliVars, moreVars>>

SpecWindow == InitWindow /\ [][NextWindow]_vars

\* an ActivePTW of two arms given the rewards of arm 0 of a source that
\* changes at most once
InitWide ==
    /\ WideInit /\ PTWIdle /\ KTStart /\ EnvIdle /\ PolicyIdle /\ TwinIdle
    /\ WindowIdle /\ CliIdle /\ MoreIdle

NextWide ==
    \E r \in 0 .. 1 :
        /\ WideUpdate(r)
        /\ UNCHANGED <<ptwVars, ktVars, envVars, policyVars, twinVars, fed, cliVars, moreVars>>

SpecWide == InitWide /\ [][NextWide]_vars

\* ActivePTW up to the end of its horizon and the update after it
NextHorizon ==
    \/ /\ \E r \in 0 .. 1 : WideUpdate(r)
       /\ UNCHANGED <<ptwVars, ktVars, envVars, policyVars, twinVars, fed, cliVars, moreVars>>
    \/ /\ WideUpdateRefused
       /\ UNCHANGED <<ptwVars, ktVars, envVars, twinVars, fed, cliVars, moreVars>>
       /\ UNCHANGED <<alg, n_arms, pc, action, trials, pulls>>

SpecHorizon == InitWide /\ [][NextHorizon]_vars

\* the program from its command line to its end
InitCli ==
    /\ CliInit /\ PTWIdle /\ KTStart /\ EnvIdle /\ PolicyIdle /\ TwinIdle
    /\ WindowIdle /\ WideIdle /\ MoreIdle

otherThanCli ==
    <<ptwVars, ktVars, envVars, policyVars, twinVars, fed, wideVars, moreVars>>

NextCli ==
    \/ ProcessCmdLine /\ UNCHANGED otherThanCli
    \/ Main /\ UNCHANGED otherThanCli
    \/ TextCreate /\ UNCHANGED otherThanCli
    \/ TextTrial /\ UNCHANGED otherThanCli
    \/ TextTrialsLeft /\ UNCHANGED otherThanCli
    \/ TextEnd /\ UNCHANGED otherThanCli
    \/ PlotCreate /\ UNCHANGED otherThanCli
    \/ PlotTrial /\ UNCHANGED otherThanCli
    \/ PlotTrialsLeft /\ UNCHANGED otherThanCli
    \/ PlotNext /\ UNCHANGED otherThanCli
    \/ PlotEnd /\ UNCHANGED otherThanCli

SpecCli == InitCli /\ [][NextCli]_vars

\* a call of maxRelEntropy; its loop is not held up
InitBisect ==
    /\ BisectInit /\ PTWIdle /\ KTStart /\ EnvIdle /\ PolicyIdle /\ TwinIdle
    /\ WindowIdle /\ WideIdle /\ CliIdle /\ CallsIdle /\ StatsIdle

otherThanBisect ==
    <<ptwVars, ktVars, envVars, policyVars, twinVars, fed, wideVars, cliVars,
      callVars, stats>>

NextBisect ==
    \/ BisectNarrow /\ UNCHANGED otherThanBisect
    \/ BisectReturn /\ UNCHANGED otherThanBisect

(* maxRelEntropy is straight-line code between its entry and its return:
   a pass that can be taken is taken.  This is weak fairness of NextBisect,
   with ENABLED <<NextBisect>>_vars written out as bisect.pc = "loop" (a
   pass always adds one to k, so it always changes the state).            *)
BisectRuns == []<>(bisect.pc # "loop") \/ []<><<NextBisect>>_vars

SpecBisect == InitBisect /\ [][NextBisect]_vars /\ BisectRuns

\* UCB, KL-UCB and Sliding-UCB driven by any sequence of calls
InitCalls ==
    /\ CallsInit /\ PTWIdle /\ KTStart /\ EnvIdle /\ PolicyIdle /\ TwinIdle
    /\ WindowIdle /\ WideIdle /\ CliIdle /\ BisectIdle /\ StatsIdle

otherThanCalls ==
    <<ptwVars, ktVars, envVars, policyVars, twinVars, fed, wideVars, cliVars,
      bisect, stats>>

NextCalls ==
    \/ CallGetAction /\ UNCHANGED otherThanCalls
    \/ CallUpdate /\ UNCHANGED otherThanCalls
    \/ CallReset /\ UNCHANGED otherThanCalls

SpecCalls == InitCalls /\ [][NextCalls]_vars

\* plotMode from the end of the runs of an agent to its datapoints
InitStats ==
    /\ StatsInit /\ PTWIdle /\ KTStart /\ EnvIdle /\ PolicyIdle /\ TwinIdle
    /\ WindowIdle /\ WideIdle /\ CliIdle /\ BisectIdle /\ CallsIdle

otherThanStats ==
    <<ptwVars, ktVars, envVars, policyVars, twinVars, fed, wideVars, cliVars,
      bisect, callVars>>

NextStats ==
    \/ ComputeMeans /\ UNCHANGED otherThanStats
    \/ ComputeCI /\ UNCHANGED otherThanStats
    \/ ComputeCIPastEnd /\ UNCHANGED otherThanStats
    \/ ComputeCIFault /\ UNCHANGED otherThanStats
    \/ WriteDatapoints /\ UNCHANGED otherThanStats

SpecStats == InitStats /\ [][NextStats]_vars

(* ----------------------- ActivePTW: the claims ------------------------- *)

RECURSIVE Fact(_)
Fact(n) == IF n = 0 THEN 1 ELSE n * Fact(n - 1)

\* (2n - 1)!! = 1 * 3 * ... * (2n - 1)
RECURSIVE OddFact(_)
OddFact(n) == IF n = 0 THEN 1 ELSE (2 * n - 1) * OddFact(n - 1)

\* B(1/2 + c1, 1/2 + c0) / B(1/2, 1/2), the KT marginal of c0 zeros and c1 ones
BetaRatio(c0, c1) ==
    Rat(OddFact(c0) * OddFact(c1), Pow2(c0 + c1) * Fact(c0 + c1))

\* how many of the observations o[lo + 1 .. hi] are reward b on arm k
CountIn(o, lo, hi, k, b) ==
    Cardinality({i \in (lo + 1) .. hi : i <= Len(o) /\ o[i] = <<b, k>>})

RECURSIVE SegMarginalUpTo(_, _, _, _)
SegMarginalUpTo(o, lo, hi, k) ==
    IF k < 0 THEN ROne
    ELSE RMul(SegMarginalUpTo(o, lo, hi, k - 1),
              BetaRatio(CountIn(o, lo, hi, k, 0), CountIn(o, lo, hi, k, 1)))

\* the product over the arms of the KT marginal of the arm's rewards in
\* the time segment [lo, hi)
SegMarginal(o, K, lo, hi) == SegMarginalUpTo(o, lo, hi, K - 1)

\* the dyadic partitions of the depth-d segment starting at lo, listed as a
\* sequence; each partition is the sequence of its segments <<lo, depth>>,
\* left to right: the segment itself, or a partition of its left half
\* followed by a partition of its right half
RECURSIVE Partitions(_, _, _)
Partitions(lo, d, D) ==
    IF d = D THEN << <<<<lo, d>>>> >>
    ELSE LET left == Partitions(lo, d + 1, D)
             right == Partitions(lo + Pow2(D - d - 1), d + 1, D)
             n == Len(right)
         IN  << <<<<lo, d>>>> >> \o
             [i \in 1 .. (Len(left) * n) |->
                 left[((i - 1) \div n) + 1] \o right[((i - 1) % n) + 1]]

RECURSIVE RPow(_, _)
RPow(x, n) == IF n = 0 THEN ROne ELSE RMul(x, RPow(x, n - 1))

\* the tree node <<lo, d>> numbered as in a binary heap (root 1)
HeapId(s, D) == Pow2(s[2]) + (s[1] \div Pow2(D - s[2]))

\* for every tree node, by heap number: the marginal of the observations in
\* its segment, times the stop weight when the node is above depth D
SegmentTerms(o, D, K) ==
    <<>> \o [h \in 1 .. (Pow2(D + 1) - 1) |->
        LET d == CHOOSE x \in 0 .. D : Pow2(x) <= h /\ h < Pow2(x + 1)
            lo == (h - Pow2(d)) * Pow2(D - d)
            stop == IF d < D THEN LogStopWeight(K) ELSE ROne
        IN  RMul(stop, SegMarginal(o, K, lo, lo + Pow2(D - d)))]

\* the product of the terms of the segments p[1..j]
RECURSIVE SegmentsProduct(_, _, _, _)
SegmentsProduct(p, j, terms, D) ==
    IF j = 0 THEN ROne
    ELSE RMul(terms[HeapId(p[j], D)], SegmentsProduct(p, j - 1, terms, D))

\* prior(partition) times the product of its segments' marginals: every
\* segment above depth D stopped, every internal node split (a binary tree
\* with n leaves has n - 1 internal nodes)
PartitionTerm(p, terms, D, K) ==
    RMul(RPow(LogSplitWeight(K), Len(p) - 1), SegmentsProduct(p, Len(p), terms, D))

\* the sum of the terms of the partitions ps[a..b], by halves
RECURSIVE MixtureSum(_, _, _, _, _, _)
MixtureSum(ps, a, b, terms, D, K) ==
    IF a > b THEN RZero
    ELSE IF a = b THEN PartitionTerm(ps[a], terms, D, K)
    ELSE LET mid == (a + b) \div 2
         IN  RAdd(MixtureSum(ps, a, mid, terms, D, K),
                  MixtureSum(ps, mid + 1, b, terms, D, K))

\* the PTW mixture probability of the observations o
PTWMixture(o, D, K) ==
    LET ps == Partitions(0, 0, D)
        terms == SegmentTerms(o, D, K)
    IN  MixtureSum(ps, 1, Len(ps), terms, D, K)

\* C1: after any sequence of t <= 2^D updates, logMarginal() (n[0].wl) is the
\* log of the PTW mixture probability of the observations: the sum over all
\* dyadic partitions of [0, 2^D) of prior(partition) times the product over
\* segments and arms of the KT marginal of the arm's rewards in the segment.
C1_MarginalIsMixture == PTWlogMarginal = PTWMixture(obs, m_depth, m_arms)

C1_Witness ==
    /\ m_depth = 2
    /\ m_arms = 3
    /\ obs = <<<<1, 0>>, <<0, 2>>, <<0, 0>>>>
    /\ PTWlogMarginal = PTWMixture(obs, m_depth, m_arms)

RECURSIVE RSumSeq(_)
RSumSeq(s) == IF s = <<>> THEN RZero ELSE RAdd(s[1], RSumSeq(Tail(s)))

InUnit(x) == RLeq(RZero, x) /\ RLeq(x, ROne)

\* C2: in every reachable state levelPosterior() returns D + 1 entries, each
\* in [0, 1], summing to at most 1, and the mass left after every level is in
\* [0, 1]: the assertions inside levelPosterior hold.
C2_LevelPosteriorSubProbability ==
    LET lp == levelPosterior(m_nodes, m_depth, m_arms)
    IN  /\ Len(lp) = m_depth + 1
        /\ \A i \in 1 .. Len(lp) : InUnit(lp[i])
        /\ \A i \in 0 .. m_depth : InUnit(levelPosteriorUpTo(m_nodes, m_arms, i).left)
        /\ RLeq(RSumSeq(lp), ROne)

C2_Witness ==
    /\ m_depth = 2
    /\ m_index = 3
    /\ \E i \in 1 .. 3 : obs[i][1] = 1
    /\ \E i \in 1 .. 3 : obs[i][1] = 0
    /\ levelPosterior(m_nodes, m_depth, m_arms)[1].num > 0

\* |1 - x| <= 10^-10, as (difference) <= floor(den / 10^10)
Within1e10(x) == Abs(x.den - x.num) <= (x.den \div 100000) \div 100000

\* C3 (as claimed): after t updates with D >= ceil(log2(t + 1)), that is
\* t + 1 <= 2^D, the entries of levelPosterior() sum to 1 within 1e-10.
C3_LevelPosteriorSumsToOne ==
    (m_index >= 1 /\ m_index + 1 <= Pow2(m_depth))
        => Within1e10(RSumSeq(levelPosterior(m_nodes, m_depth, m_arms)))

\* C4: after any number of updates, for every level i < D,
\* n[i].wl = log(exp(LogStop + n[i].logMarginal())
\*               + exp(LogSplit + n[i+1].wl + n[i].buf)),
\* and n[D].wl = n[D].logMarginal().
C4_WeightedRecurrence ==
    /\ \A i \in 0 .. (m_depth - 1) :
          m_nodes[i].m_log_weighted =
              RAdd(RMul(LogStopWeight(m_arms), NodeLogMarginal(m_nodes[i])),
                   RMul(LogSplitWeight(m_arms),
                        RMul(m_nodes[i + 1].m_log_weighted, m_nodes[i].m_log_buf)))
    /\ m_nodes[m_depth].m_log_weighted = NodeLogMarginal(m_nodes[m_depth])

\* a state in the right half of the level-0 segment: the buffer of node 0
\* holds the weighted probability of the finished left half
C4_Witness ==
    /\ m_depth = 2
    /\ m_index = 3
    /\ m_nodes[0].m_log_buf # ROne
    /\ m_nodes[1].m_log_weighted # ROne

\* C5: after t >= 1 updates, for every level i and arm k, the KT counts of
\* node i for arm k are the numbers of reward-0 and reward-1 observations of
\* arm k among the last ((t - 1) mod 2^(D - i)) + 1 observations.
C5_CountsAreCurrentSegment ==
    m_index >= 1 =>
        \A i \in 0 .. m_depth : \A k \in Arms(m_arms) :
            LET n == ((m_index - 1) % Pow2(m_depth - i)) + 1
            IN  m_nodes[i].m_model[k].m_counts =
                    <<CountIn(obs, m_index - n, m_index, k, 0),
                      CountIn(obs, m_index - n, m_index, k, 1)>>

\* after a reset of level 1: node 0 holds three observations, node 1 one
C5_Witness ==
    /\ m_depth = 2
    /\ m_index = 3
    /\ m_nodes[0].m_model[0].m_counts = <<1, 2>>
    /\ m_nodes[1].m_model[0].m_counts = <<0, 1>>
    /\ m_nodes[2].m_model[0].m_counts = <<0, 1>>

(* ---------------------- KTEstimator: the claims ------------------------ *)

\* how many of the bits s[1..n] are b
CountBits(s, n, b) == Cardinality({i \in 1 .. n : s[i] = b})

\* the product over i <= n of (c_b + 1/2) / (c0 + c1 + 1) for b = s[i] and
\* the counts c of the bits before s[i]
RECURSIVE PredictorProduct(_, _)
PredictorProduct(s, n) ==
    IF n = 0 THEN ROne
    ELSE RMul(PredictorProduct(s, n - 1),
              Rat(2 * CountBits(s, n - 1, s[n]) + 1, 2 * (n - 1) + 2))

\* C6: after any sequence s of update(b) calls, exp(logMarginal()) is the
\* product over i of (c_b + 1/2) / (c0 + c1 + 1) with the counts before s_i;
\* it depends only on the final counts (it is B(1/2 + c1, 1/2 + c0) / B(1/2, 1/2));
\* posterior() is (1/2 + c1, 1/2 + c0); for bits [1,0,1,1] the marginal is
\* 5/128 and the posterior (3.5, 1.5).
C6_KTMarginal ==
    LET c0 == CountBits(bits, Len(bits), 0)
        c1 == CountBits(bits, Len(bits), 1)
    IN  /\ kt.m_log_kt = PredictorProduct(bits, Len(bits))
        /\ kt.m_log_kt = BetaRatio(c0, c1)
        /\ kt.m_counts = <<c0, c1>>
        /\ KTposterior(kt) = <<Rat(2 * c1 + 1, 2), Rat(2 * c0 + 1, 2)>>
        /\ bits = <<1, 0, 1, 1>> =>
              /\ kt.m_log_kt = Rat(5, 128)
              /\ KTposterior(kt) = <<Rat(7, 2), Rat(3, 2)>>

C6_Witness ==
    /\ bits = <<1, 0, 1, 1>>
    /\ kt.m_log_kt = Rat(5, 128)
    /\ kt.m_counts = <<1, 3>>

(* ------------------ StochasticBanditProblem: the claims ---------------- *)

\* StochasticBanditProblem::bestHindsightExpectedReturn() and cummulativeReward()
bestHindsightExpectedReturn == m_exp_cumm_reward
cummulativeReward == Rat(m_cumm_reward, 1)

\* C10 (as claimed): after every prefix of pull() calls, R* >= R.
C10_BestHindsightAtLeastReward ==
    RLeq(cummulativeReward, bestHindsightExpectedReturn)

\* C10 (amended): after every prefix of pull() calls, R* is at least the
\* expected reward of the pulls made, the sum of the means theta_a in effect
\* at each pull of arm a (the realised R may exceed R*).
C10_BestHindsightAtLeastExpectedReward ==
    RLeq(exp_pulled, bestHindsightExpectedReturn)

\* a pull of a worse arm paid 1: R* lies strictly between the expected
\* reward of the pulls and R
C10_Witness ==
    /\ m_num_trials >= 1
    /\ ~RLeq(cummulativeReward, bestHindsightExpectedReturn)
    /\ ~RLeq(bestHindsightExpectedReturn, exp_pulled)

(* ------------------------- claims on the policies ----------------------- *)

\* C7: for every policy (UCB, KL-UCB, Sliding-UCB, MALG, TS, ActivePTW,
\* ParanoidPTW, Uniform, Constant, MasterUCB) constructed for K arms, in
\* every state reached by alternating getAction() and update(arm, reward)
\* with arm in [0, K) and reward in {0, 1}, getAction() returns, and what
\* it returns is an index in [0, K).
C7_ActionInRange ==
    /\ ~aborted
    /\ pc = "upd" => action \in 0 .. (n_arms - 1)

\* ParanoidPTW for three arms returned the last arm after two updates
C7_Witness ==
    /\ alg.kind = "ParanoidPTW"
    /\ n_arms = 3
    /\ trials = 2
    /\ pc = "upd"
    /\ action = n_arms - 1

\* the arms pulled in the first n trials of the loop
FirstPulls(n) == {pulls[i] : i \in 1 .. n}

\* the number of plays a policy of the UCB family remembers, capped at K:
\* all of them for UCB1 and KL-UCB, m_window for Sliding-UCB
Remembered == IF alg.kind = "SWUCB" /\ alg.m_window < n_arms
              THEN alg.m_window ELSE n_arms

C9_MalgWindowContainsTau ==
    /\ ~aborted
    /\ (alg.kind = "MALG" /\ pc = "upd") => candidates(alg) # {}

\* at tau = 2 of a depth-2 MalgUCB only the level-2 instance, installed at
\* tau = 1, contains tau
C9_Witness ==
    /\ alg.kind = "MALG"
    /\ alg.m_n = 2
    /\ alg.m_tau = 2
    /\ pc = "upd"
    /\ candidates(alg) = {2}
    /\ alg.m_instances[2].s = 1

lastOf(s, n) == SubSeq(s, Len(s) - n + 1, Len(s))

\* the sum of f over the set S of indices
RECURSIVE sumOver(_, _)
sumOver(f, S) ==
    IF S = {} THEN 0
    ELSE LET i == CHOOSE x \in S : TRUE IN f[i] + sumOver(f, S \ {i})

\* C12: after n updates a SlidingUCBStrategy of window W holds the last
\* min(n, W) (arm, reward) pairs in order; the visit count of an arm is
\* the number of held pairs with that arm and its cumulative reward is the
\* sum of their rewards.
C12_WindowHoldsLastUpdates ==
    alg.kind = "SWUCB" =>
        LET n == Len(fed)
            held == lastOf(fed, IF n < alg.m_window THEN n ELSE alg.m_window)
        IN  /\ alg.m_plays = [i \in 1 .. Len(held) |-> held[i][1]]
            /\ alg.m_rewards = [i \in 1 .. Len(held) |-> held[i][2]]
            /\ \A a \in Arms(alg.m_arms) :
                  LET at == {i \in 1 .. Len(alg.m_plays) : alg.m_plays[i] = a}
                  IN  /\ alg.m_arm_visits[a] = Cardinality(at)
                      /\ alg.m_arm_cumm_reward[a] = sumOver(alg.m_rewards, at)

C12_Witness ==
    /\ alg.kind = "SWUCB"
    /\ alg.m_arms = 2
    /\ alg.m_window = 4
    /\ fed = <<(<<0, 1>>), (<<0, 1>>), (<<1, 0>>), (<<1, 0>>), (<<0, 0>>)>>
    /\ alg.m_arm_visits = (0 :> 2 @@ 1 :> 2)
    /\ alg.m_arm_cumm_reward = (0 :> 1 @@ 1 :> 0)

\* the first getAction() of a MalgUCB with K = 2 and depth 2 has returned
MalgFirstStep ==
    /\ alg.kind = "MALG"
    /\ alg.m_arms = 2
    /\ alg.m_n = 2
    /\ alg.m_tau = 1
    /\ pc = "upd"

\* C13 as stated: after the first getAction() of a MalgUCB with K = 2 and
\* depth 2 the level-2 instance is installed, has window length 1 and is the
\* active instance, whatever the draws.
C13_Level2ActiveWithLength1 ==
    MalgFirstStep =>
        /\ 2 \in DOMAIN alg.m_instances
        /\ length(alg.m_instances[2]) = 1
        /\ activeInstance(alg) = 2

\* C13: after the first getAction() of a MalgUCB with K = 2 and depth 2
\* the level-2 instance is installed with the window [1, 4] (length 4),
\* whatever the draws; the active instance is the lowest installed level,
\* so level 2 is active exactly when neither level 0 (window [1, 1]) nor
\* level 1 (window [1, 2]) was installed.
C13_Level2InstalledLowestActive ==
    MalgFirstStep =>
        /\ 2 \in DOMAIN alg.m_instances
        /\ alg.m_instances[2].s = 1
        /\ alg.m_instances[2].e = 4
        /\ length(alg.m_instances[2]) = 4
        /\ \A m \in DOMAIN alg.m_instances : length(alg.m_instances[m]) = Pow2(m)
        /\ \A m \in DOMAIN alg.m_instances : activeInstance(alg) <= m
        /\ activeInstance(alg) = 2 <=> DOMAIN alg.m_instances = {2}

\* all three levels were installed and level 0, of window length 1, is active
C13_Witness ==
    /\ MalgFirstStep
    /\ DOMAIN alg.m_instances = {0, 1, 2}
    /\ activeInstance(alg) = 0
    /\ length(alg.m_instances[0]) = 1

\* a MalgUCB with K = 2 and depth 2 after its first getAction()/update()
MalgSecondStep ==
    /\ alg.kind = "MALG"
    /\ alg.m_arms = 2
    /\ alg.m_n = 2
    /\ trials = 1

C15_StationaryMassOnLevel0 ==
    (w_depth = 3 /\ w_rewards = <<1, 1, 1, 1, 1, 1, 1, 1>>) =>
        RLessW(RatW(1, 2), w_seen[8][1])

C15_Witness ==
    /\ w_depth = 3
    /\ w_index = 8
    /\ w_rewards = <<1, 1, 1, 1, 1, 1, 1, 1>>
    /\ w_seen[8] = levelPosteriorW(w_nodes, w_depth, 2)
    /\ REqW(w_seen[8][1], RatW(10296, 12101))

\* the sum of the entries lo..hi of a levelPosterior() vector
RECURSIVE massOfLevelsW(_, _, _)
massOfLevelsW(lp, lo, hi) ==
    IF lo > hi THEN RatW(0, 1)
    ELSE RAddW(massOfLevelsW(lp, lo, hi - 1), lp[hi])

\* 8 rewards of 1, then 8 rewards of 0
AbruptChange == <<1, 1, 1, 1, 1, 1, 1, 1, 0, 0, 0, 0, 0, 0, 0, 0>>

\* C16: an ActivePTW with K = 2 and D = 4 given 8 updates of arm 0 with
\* reward 1 and then 8 with reward 0 has more posterior mass on the levels
\* 1..D than on level 0, and less mass on level 0 than after the first 8
\* updates.
C16_AbruptChangeMovesMassDown ==
    (w_depth = 4 /\ w_rewards = AbruptChange) =>
        /\ RLessW(w_seen[16][1], massOfLevelsW(w_seen[16], 2, 5))
        /\ RLessW(w_seen[16][1], w_seen[8][1])

C16_Witness ==
    /\ w_depth = 4
    /\ w_index = 16
    /\ w_rewards = AbruptChange
    /\ w_seen[16] = levelPosteriorW(w_nodes, w_depth, 2)
    /\ REqW(w_seen[16][1], RatW(164736, 732335741))
    /\ REqW(w_seen[8][1], RatW(20592, 32693))

\* C17: under TwoPhaseChangeSchedule(max_trials, theta1, theta2) a change
\* happens exactly at the trials 1 and floor(max_trials / 2), and the means
\* in effect for a trial (those pull() reads, m_thetas before the pull of
\* trial m_num_trials + 1) are theta1 before trial floor(max_trials / 2) and
\* theta2 at or after it.
C17_TwoPhaseMeansInEffect ==
    (m_change_schedule.kind = "TwoPhase" /\ ~exited) =>
        LET t == m_num_trials + 1
            halfway == m_change_schedule.m_halfway
        IN  /\ \A u \in 1 .. MaxTrials :
                  changepoint(m_change_schedule, u) <=> (u = 1 \/ u = halfway)
            /\ m_thetas = IF t < halfway THEN m_change_schedule.m_thetas_seg1
                                         ELSE m_change_schedule.m_thetas_seg2


\* C18: an Agent given on the command line that is none of the nine names
\* is fatal in both modes: no trial is run and the program does not
\* return 0.
C18_UnknownAgentIsFatal ==
    asParsed.Params.Agent \notin AgentNames => cli_ran = 0 /\ cli_pc # "done"

\* in textMode such an Agent is fatal
UnknownAgentIsFatalInText ==
    asParsed.Params.Agent \notin AgentNames /\ Params.Mode = "text"
        => cli_ran = 0 /\ cli_pc # "done"

\* the integers written for the key lhs, in their order
writtenFor(lhs) ==
    LET at == {i \in DOMAIN argv : argv[i].eq /\ argv[i].lhs = lhs /\ ~stoi(argv[i].rhs).thrown}
        nth[k \in 0 .. Cardinality(at)] ==
            IF k = 0 THEN <<>>
            ELSE LET i == CHOOSE i \in at : Cardinality({j \in at : j < i}) = k - 1
                 IN  Append(nth[k - 1], stoi(argv[i].rhs).value)
    IN  nth[Cardinality(at)]

\* C19: once processCmdLine has returned, every Arms written was at least
\* 2 and every Trials written at least 1, and Params.Arms and Params.Trials
\* are the last numbers written.
C19_ArmsAndTrialsAsWritten ==
    cli_pc = "parsed" =>
        LET armed == writtenFor("Arms")
            tried == writtenFor("Trials")
        IN  /\ \A i \in DOMAIN armed : armed[i] >= 2
            /\ \A i \in DOMAIN tried : tried[i] >= 1
            /\ armed # <<>> => Params.Arms = BigOf(armed[Len(armed)])
            /\ tried # <<>> => Params.Trials = BigOf(tried[Len(tried)])

\* the same with the written integers taken modulo 2^64
ArmsAndTrialsAsConverted ==
    cli_pc = "parsed" =>
        LET armed == writtenFor("Arms")
            tried == writtenFor("Trials")
        IN  /\ \A i \in DOMAIN armed : ~BigLess(toSizeT(armed[i]), BigOf(2))
            /\ \A i \in DOMAIN tried : ~BigLess(toSizeT(tried[i]), BigOf(1))
            /\ armed # <<>> => Params.Arms = toSizeT(armed[Len(armed)])
            /\ tried # <<>> => Params.Trials = toSizeT(tried[Len(tried)])

\* ceil(1 / rate) for a positive rate
ceilOfInverse(rate) == (rate.den + rate.num - 1) \div rate.num

\* C20: without SWUCBWindow on the command line, the Sliding-UCB agent
\* is built with the window ceil(1 / CptRate) for the CptRate in effect
\* after parsing when that is positive, and with the largest size_t when
\* it is 0.
C20_DefaultWindowFollowsCptRate ==
    /\ cli_agent.name = "SWUCB"
    /\ \A i \in DOMAIN argv : argv[i].lhs # "SWUCBWindow"
    /\ Params.CptRate.num >= 0
    => cli_agent.window = IF Params.CptRate.num > 0
                          THEN BigOf(ceilOfInverse(Params.CptRate))
                          ELSE SizeMax

\* what the code does instead: the window is the one of the default rate
DefaultWindowIsThatOfDefaultRate ==
    /\ cli_agent.name = "SWUCB"
    /\ \A i \in DOMAIN argv : argv[i].lhs # "SWUCBWindow"
    => cli_agent.window = BigOf(500)


(* ------------------------ claims of the third part ---------------------- *)

\* the bits, of the D lowest, at which t - 1 and t - 2 differ
differingBits(t, D) == {c \in 0 .. (D - 1) : Bit(t - 1, c) # Bit(t - 2, c)}

\* the number of bit positions, of D, to the left of the highest bit at
\* which t - 1 and t - 2 differ
leftOfHighestChange(t, D) ==
    D - 1 - (CHOOSE c \in differingBits(t, D) : \A b \in differingBits(t, D) : b <= c)

\* C21: mscb(1) = 0, and for every t of 2..2^D mscb(t) is the number of bit
\* positions, in D bits, to the left of the highest bit at which t - 1 and
\* t - 2 differ; it lies in 0..D-1, so that update() reads and resets no
\* node beyond D.  Stated for the times of the updates made and of the next.
C21_MscbIsHighestChangedBit ==
    \A t \in 1 .. (IF w_index < Pow2(w_depth) THEN w_index + 1 ELSE w_index) :
        /\ t = 1 => mscb(t, w_depth) = 0
        /\ t >= 2 => mscb(t, w_depth) = leftOfHighestChange(t, w_depth)
        /\ mscb(t, w_depth) \in 0 .. (w_depth - 1)
        /\ DOMAIN w_nodes = 0 .. w_depth

C21_Witness ==
    /\ w_depth = 4
    /\ w_index = 16
    /\ mscb(16, 4) = 3
    /\ mscb(9, 4) = 0
    /\ w_nodes[4].m_model[0].m_counts[1] + w_nodes[4].m_model[0].m_counts[2] = 1
    /\ w_nodes[3].m_model[0].m_counts[1] + w_nodes[3].m_model[0].m_counts[2] = 2


\* the index is the number of updates absorbed; an update adds one to it
\* and is made only within the horizon, and the assert failing changes
\* nothing of the model
IndexStep ==
    /\ w_index' # w_index => w_index' = w_index + 1 /\ w_index < Pow2(w_depth)
    /\ aborted' # aborted => w_index = Pow2(w_depth) /\ UNCHANGED wideVars

\* C22: the index is the number of updates absorbed and lies in [0, 2^D);
\* each update adds exactly 1, and an update when the horizon is exhausted
\* fails its assertion and changes nothing.
C22_IndexBelowHorizon ==
    /\ [](w_index = Len(w_rewards) /\ w_index \in 0 .. (Pow2(w_depth) - 1))
    /\ [][IndexStep]_vars

\* C22 with the index in [0, 2^D]: 2^D is reached by the last update the
\* assertion lets through.
C22_IndexWithinHorizon ==
    /\ [](w_index = Len(w_rewards) /\ w_index \in 0 .. Pow2(w_depth))
    /\ [][IndexStep]_vars

C22_Witness ==
    /\ w_depth = 3
    /\ w_index = 8
    /\ Len(w_rewards) = 8
    /\ aborted


\* the installed instances of the smallest window length among those whose
\* window holds tau
shortestHolding(g) ==
    {i \in DOMAIN g.m_instances :
        /\ g.m_instances[i].s <= g.m_tau /\ g.m_tau <= g.m_instances[i].e
        /\ \A j \in DOMAIN g.m_instances :
              g.m_instances[j].s <= g.m_tau /\ g.m_tau <= g.m_instances[j].e
                  => g.m_instances[i].e - g.m_instances[i].s
                         <= g.m_instances[j].e - g.m_instances[j].s}

\* after getAction(): one instance is the shortest holding tau, and the
\* action is one its UCBStrategy returns
ActionOfShortest ==
    pc = "upd" =>
        /\ Cardinality(shortestHolding(alg)) = 1
        /\ \E i \in shortestHolding(alg) :
              action \in UCBStrategy_getAction(alg.m_instances[i].alg)

\* a step of update(arm, reward): that instance takes the arm and the
\* reward, tau grows by 1, and nothing else of the instances changes
RewardToShortestOnly ==
    pc = "upd" /\ pc' = "get" =>
        \E i \in shortestHolding(alg) :
            /\ alg'.m_tau = alg.m_tau + 1
            /\ DOMAIN alg'.m_instances = DOMAIN alg.m_instances
            /\ \E arm \in Arms(n_arms) : \E r \in 0 .. 1 :
                  alg'.m_instances[i] =
                      [alg.m_instances[i] EXCEPT
                          !.alg = UCBStrategy_update(@, arm, r)]
            /\ \A m \in DOMAIN alg.m_instances \ {i} :
                  alg'.m_instances[m] = alg.m_instances[m]

\* C23: MalgUCB::getAction() returns the action of the installed
\* sub-instance of the smallest window length among those whose [s, e]
\* holds tau, which is unique; the update(arm, reward) that follows gives
\* the reward to that sub-instance and to no other, then adds 1 to tau.
C23_ActiveInstanceActsAndLearns ==
    [](alg.kind = "MALG" => ActionOfShortest) /\ [][RewardToShortestOnly]_vars

\* levels 0 and 2 were installed at tau = 1; level 0 took the reward
C23_Witness ==
    /\ alg.kind = "MALG"
    /\ alg.m_tau = 2
    /\ pc = "get"
    /\ DOMAIN alg.m_instances = {0, 2}
    /\ alg.m_instances[0].alg.m_visits = 1
    /\ alg.m_instances[2].alg.m_visits = 0


\* a UCBStrategy without statistics
zeroed(u) ==
    /\ u.m_visits = 0
    /\ \A a \in DOMAIN u.m_arm_visits :
          u.m_arm_visits[a] = 0 /\ u.m_arm_cumm_reward[a] = 0

\* two windows are nested or disjoint
nestedOrDisjoint(x, y) ==
    \/ x.e < y.s \/ y.e < x.s
    \/ (x.s <= y.s /\ y.e <= x.e)
    \/ (y.s <= x.s /\ x.e <= y.e)

\* the windows installed: level m has length 2^m and starts at a multiple
\* of 2^m plus 1
DyadicWindows ==
    alg.kind = "MALG" =>
        /\ \A m \in DOMAIN alg.m_instances :
              /\ alg.m_instances[m].e - alg.m_instances[m].s + 1 = Pow2(m)
              /\ (alg.m_instances[m].s - 1) % Pow2(m) = 0
        /\ \A m1, m2 \in DOMAIN alg.m_instances :
              nestedOrDisjoint(alg.m_instances[m1], alg.m_instances[m2])

\* a step of getAction(): a level that is new or changed had tau - 1
\* divisible by 2^m, and has the window [tau, tau + 2^m - 1] and no
\* statistics; level D is such a level whenever tau - 1 is divisible by 2^D
InstallStep ==
    alg.kind = "MALG" /\ pc = "get" /\ pc' = "upd" =>
        /\ alg'.m_tau = alg.m_tau
        /\ DOMAIN alg.m_instances \subseteq DOMAIN alg'.m_instances
        /\ \A m \in DOMAIN alg'.m_instances :
              (m \notin DOMAIN alg.m_instances
                  \/ alg'.m_instances[m] # alg.m_instances[m]) =>
                    /\ (alg.m_tau - 1) % Pow2(m) = 0
                    /\ alg'.m_instances[m].s = alg.m_tau
                    /\ alg'.m_instances[m].e = alg.m_tau + Pow2(m) - 1
                    /\ zeroed(alg'.m_instances[m].alg)
        /\ (alg.m_tau - 1) % Pow2(alg.m_n) = 0 =>
              /\ alg.m_n \in DOMAIN alg'.m_instances
              /\ alg'.m_instances[alg.m_n].s = alg.m_tau
              /\ zeroed(alg'.m_instances[alg.m_n].alg)

\* a step of update(): no window moves
NoInstallInUpdate ==
    alg.kind = "MALG" /\ pc = "upd" /\ pc' = "get" =>
        /\ DOMAIN alg'.m_instances = DOMAIN alg.m_instances
        /\ \A m \in DOMAIN alg.m_instances :
              /\ alg'.m_instances[m].s = alg.m_instances[m].s
              /\ alg'.m_instances[m].e = alg.m_instances[m].e

dueTimes(m, n) == {t \in 1 .. Pow2(n) : restartDue(t, m)}

\* C25 as stated: of two levels m1 < m2 of a MalgUCB the higher, m2, is
\* eligible for a restart at least as often as m1, and its installed
\* window is no longer than that of m1.
C25_HigherLevelsRestartMoreOften ==
    alg.kind = "MALG" =>
        \A m1, m2 \in 0 .. alg.m_n :
            m1 < m2 =>
                /\ restartDue(alg.m_tau, m1) => restartDue(alg.m_tau, m2)
                /\ Cardinality(dueTimes(m2, alg.m_n)) >= Cardinality(dueTimes(m1, alg.m_n))
                /\ {m1, m2} \subseteq DOMAIN alg.m_instances =>
                      alg.m_instances[m2].e - alg.m_instances[m2].s
                          <= alg.m_instances[m1].e - alg.m_instances[m1].s

\* C25: of two levels m1 < m2 of a MalgUCB the lower, m1, is eligible for
\* a restart at every step at which m2 is, and 2^(m2 - m1) times as often
\* (every 2^m1 steps against every 2^m2), and its installed window, of
\* length 2^m1, is shorter than that of m2, of length 2^m2.
C25_LowerLevelsRestartMoreOften ==
    alg.kind = "MALG" =>
        \A m1, m2 \in 0 .. alg.m_n :
            m1 < m2 =>
                /\ restartDue(alg.m_tau, m2) => restartDue(alg.m_tau, m1)
                /\ Cardinality(dueTimes(m1, alg.m_n))
                      = Pow2(m2 - m1) * Cardinality(dueTimes(m2, alg.m_n))
                /\ {m1, m2} \subseteq DOMAIN alg.m_instances =>
                      /\ alg.m_instances[m1].e - alg.m_instances[m1].s + 1 = Pow2(m1)
                      /\ alg.m_instances[m2].e - alg.m_instances[m2].s + 1 = Pow2(m2)
                      /\ alg.m_instances[m1].e - alg.m_instances[m1].s
                            < alg.m_instances[m2].e - alg.m_instances[m2].s

\* at tau = 2 of a depth-2 MalgUCB level 0 was restarted (window [2, 2])
\* while levels 1 and 2, not eligible, keep the windows [1, 2] and [1, 4]
C25_Witness ==
    /\ alg.kind = "MALG"
    /\ alg.m_n = 2
    /\ alg.m_tau = 2
    /\ pc = "upd"
    /\ DOMAIN alg.m_instances = {0, 1, 2}
    /\ alg.m_instances[0].s = 2 /\ alg.m_instances[0].e = 2
    /\ alg.m_instances[1].s = 1 /\ alg.m_instances[1].e = 2
    /\ alg.m_instances[2].s = 1 /\ alg.m_instances[2].e = 4
    /\ restartDue(alg.m_tau, 0) /\ ~restartDue(alg.m_tau, 1)


\* the largest of the means
largestMean(thetas) ==
    CHOOSE x \in {thetas[a] : a \in DOMAIN thetas} :
        \A b \in DOMAIN thetas : RLeq(thetas[b], x)

\* a step of pull() at trial t = m_num_trials + 1: the reward is a flip of
\* a coin of one of the means in effect before the call, R* grows by the
\* largest of them, and the means are replaced only at a changepoint of t,
\* by customArmInitialisation(t) or else by fresh draws
PullStep ==
    m_num_trials' # m_num_trials =>
        LET t == m_num_trials + 1
            custom == customArmInitialisation(m_change_schedule, t)
        IN  /\ m_num_trials' = t
            /\ \E a \in DOMAIN m_thetas :
                  /\ m_cumm_reward' - m_cumm_reward \in Flips(m_thetas[a])
                  /\ exp_pulled' = RAdd(exp_pulled, m_thetas[a])
            /\ m_exp_cumm_reward' = RAdd(m_exp_cumm_reward, largestMean(m_thetas))
            /\ IF changepoint(m_change_schedule, t)
               THEN IF custom # <<>> THEN m_thetas' = custom
                    ELSE m_thetas' \in [DOMAIN m_thetas -> UniformSamples]
               ELSE m_thetas' = m_thetas

\* a step of pull() with an arm out of range: fatal, nothing was counted
BadPullStep ==
    exited' # exited =>
        /\ exited'
        /\ UNCHANGED <<m_num_trials, m_cumm_reward, m_exp_cumm_reward, m_thetas>>

\* C26: pull() at trial t draws the reward from, and adds to R* the
\* largest of, the means in effect before the call; only then, if
\* changepoint(t) holds, the means are replaced (by
\* customArmInitialisation(t) when not empty, by fresh uniform values
\* otherwise), so a change at trial t first shows in trial t + 1; a pull
\* with an arm out of range is fatal before the trial count, R or R*
\* change.
C26_ChangeAfterReward == [][PullStep /\ BadPullStep]_vars

\* the first pull under a TwoPhase schedule with halfway = 1: R* grew by
\* the largest drawn mean, 1/2, and the means are now theta2
C26_Witness ==
    /\ m_change_schedule.kind = "TwoPhase"
    /\ m_change_schedule.m_halfway = 1
    /\ m_num_trials = 1
    /\ m_thetas = NastyTheta2(2)
    /\ m_exp_cumm_reward = Rat(1, 2)
    /\ m_cumm_reward = 1


\* the loop of maxRelEntropy: p <= low <= high <= 1; every pass halves
\* high - low, which is (1 - p) / 2^k after k passes; the entropy at low
\* is not above ub; the loop has made no more than 27 passes, has made
\* one when it ends, and can always make another while it has not ended
BisectionInvariant ==
    bisect.pc # "idle" =>
        /\ bisect.s * Pow2(bisect.k) <= bisect.low
        /\ bisect.low <= bisect.high
        /\ bisect.high <= bisect.n * Pow2(bisect.k)
        /\ bisect.high - bisect.low = bisect.n - bisect.s
        /\ ~relEntropyAbove(bisect.s, bisect.n, bisect.low,
                            bisect.n * Pow2(bisect.k), bisect.F)
        /\ bisect.k <= 27
        /\ bisect.pc = "done" => bisect.k >= 1 /\ ~widerThanEps(bisect)
        /\ bisect.pc = "loop" => bisected(bisect).k = bisect.k + 1

\* C27: maxRelEntropy(p, ub) with p in [0, 1] and ub > 0 terminates: each
\* pass halves high - low whichever branch is taken, so that the loop ends
\* after at most 27 passes with high - low <= 1e-8; throughout
\* p <= low <= high <= 1 and KL(p, low) <= ub, so the value returned, low,
\* is in [p, 1] and meets the bound.
C27_BisectionTerminates == []BisectionInvariant /\ <>(bisect.pc = "done")

\* p = 0: the 27th pass ends the loop, low having moved off p
C27_Witness ==
    /\ bisect.pc = "done"
    /\ bisect.s = 0
    /\ bisect.k = 27
    /\ bisect.low > 0
    /\ bisect.high < bisect.n * Pow2(bisect.k)


\* the visit count of arm a: the updates of a since the construction or
\* the last reset, for Sliding-UCB those among the last m_window updates
visitCount(a) ==
    LET n == Len(played)
        from == IF strat.kind = "SWUCB" /\ n > strat.m_window
                THEN n - strat.m_window + 1 ELSE 1
    IN  Cardinality({i \in from .. n : played[i] = a})

\* m_arm_visits holds the visit counts
VisitsAreCounted ==
    called.op # "idle" =>
        \A a \in Arms(strat.m_arms) : strat.m_arm_visits[a] = visitCount(a)

\* C28: for UCB1, KL-UCB and Sliding-UCB, whenever an arm has a (windowed)
\* visit count of 0, getAction returns an arm whose visit count is 0, never
\* a visited arm; also when a count of Sliding-UCB is back at 0 by eviction.
C28_UnvisitedArmFirst ==
    /\ VisitsAreCounted
    /\ called.op = "getAction" =>
          /\ called.arm \in Arms(strat.m_arms)
          /\ (\E a \in Arms(strat.m_arms) : visitCount(a) = 0)
                => visitCount(called.arm) = 0

\* Sliding-UCB of window 2: arm 0 was played, then evicted by two plays of
\* arm 1, and getAction returns it
C28_Witness ==
    /\ strat.kind = "SWUCB"
    /\ strat.m_window = 2
    /\ played = <<0, 1, 1>>
    /\ strat.m_arm_visits = (0 :> 0 @@ 1 :> 2)
    /\ called.op = "getAction"
    /\ called.arm = 0


\* the mean of the regrets of the runs at trial t
sameTrialMean(t) ==
    RDiv(RSum(atTrial(stats, t)), Rat(stats.PlotRepeats, 1))

\* C29: in plot mode, for every trial t in 1 .. Trials the interval
\* reported is mean_t +/- 1.96 SE_t, SE_t made of the deviations of the
\* PlotRepeats regrets at trial t around the mean at the same trial t, and
\* every index used to read means and regrets is within bounds, for all
\* Trials >= 1 and PlotRepeats >= 1.
C29_IntervalAroundSameTrialMean ==
    stats.pc # "idle" =>
        /\ ~stats.pastEnd
        /\ \A t \in 1 .. Len(stats.written) :
              /\ stats.written[t].mean = sameTrialMean(t)
              /\ stats.written[t].ci =
                    intervalOf(sumOfSquares(atTrial(stats, t),
                                            [j \in 1 .. stats.PlotRepeats |->
                                                sameTrialMean(t)]),
                               stats.PlotRepeats)


\* C30: in UCBStrategy, KLUCBStrategy and SlidingUCBStrategy a score (ucb /
\* klUCB) is evaluated only in states where every arm has a visit count of
\* at least 1 and the total count (m_visits, or the size of the FIFO) is at
\* least 1, for every sequence of getAction / update / reset calls: no
\* score divides by 0, takes the logarithm of 0 or fails the assert of
\* klUCB.
C30_ScoresOnlyWhenAllVisited ==
    \A e \in called.scored :
        /\ e.visits >= 1
        /\ e.total >= 1
        /\ \A a \in Arms(strat.m_arms) :
              visitCount(a) >= 1 /\ strat.m_arm_visits[a] >= 1

\* KL-UCB with two arms, each updated once since the construction or the
\* last reset, after two other calls: getAction evaluates the scores of both
\* arms, at one visit each and a total of two
C30_Witness ==
    /\ strat.kind = "KLUCB"
    /\ ncalls = 5
    /\ Len(played) = 2
    /\ called.op = "getAction"
    /\ called.scored = {[arm |-> 0, visits |-> 1, total |-> 2],
                        [arm |-> 1, visits |-> 1, total |-> 2]}

====
